---- MODULE Spec2Model ----
\* Verification model of Wraient/godo: the Google Tasks tree builder
\* (buildTaskHierarchy / findChildren), the cache reconciliation run by the
\* background ticker and by ImportTasks, the cache file and the update channel
\* of the UI model.
EXTENDS Integers, Sequences, FiniteSets, TLC

VARIABLES
  \* tree builder run on its own
  tbTasks,        \* the flat []*v1.Task handed to buildTaskHierarchy
  tbResult,       \* the []Task it returned
  tbPc,           \* "off", "input", "built"
  \* process and remote service
  mainPc,         \* "start" before InitializeGoogleTasks, then "running"
  remote,         \* task lists held by the remote service
  now,            \* the clock read by time.Now()
  \* taskCache
  cacheTasks,     \* taskCache.Tasks
  cacheLastSync,  \* taskCache.LastSync
  mu,             \* taskCache.mu
  lastAccess,     \* the latest access to taskCache.Tasks / LastSync and the lock held by it
  \* files
  cacheFile,      \* google_tasks_cache.json
  tempFile,       \* google_tasks_cache.json.tmp
  \* goroutines
  bg,             \* the goroutine of startBackgroundSync
  imp,            \* the goroutine started by ImportTasks
  caller,         \* the thread calling ImportTasks
  imports,        \* calls of ImportTasks so far
  ticks,          \* ticks of the background ticker so far
  \* UI model
  currentModel,   \* currentModel != nil
  updateChan,     \* m.updateChan
  refreshChan,    \* m.refreshChan (number of buffered signals)
  mTasks,         \* m.tasks as set by handleUpdates
  mCompletedTasks,\* m.completedTasks as set by handleUpdates
  exportQueue,    \* ExportToGoogle goroutines started by UpdateTasks, not yet run
  \* main and the Bubble Tea program
  uiPc,           \* main after InitializeGoogleTasks: "none", "loaded", "ui"
  startTasks,     \* the tasks main got from LoadTasks
  pTasks,         \* m.tasks of the model the program updates and renders
  pCompletedTasks,\* m.completedTasks of that model
  cursor,         \* m.cursor
  currentPath,    \* m.currentPath
  currentListID,  \* m.currentListID
  edits,          \* foreground mutations so far
  syncQueue,      \* goroutines started by syncToGoogle, not yet run
  wireLog,        \* the v1.Task payloads sent to the remote service so far
  fg,             \* the latest foreground mutation: the state before it and its remote call
  \* local persistence
  tasksFile,      \* tasks.json
  st,             \* a save / load exercise of the persistence functions
  pubs            \* calls of notifyUIOfChanges made by the publisher exercise

tbVars == <<tbTasks, tbResult, tbPc>>

syncVars == <<mainPc, remote, now, cacheTasks, cacheLastSync, mu, lastAccess,
              cacheFile, tempFile, bg, imp, caller, imports, ticks, currentModel, updateChan,
              refreshChan, mTasks, mCompletedTasks, exportQueue>>

fgVars == <<uiPc, startTasks, pTasks, pCompletedTasks, cursor, currentPath, currentListID,
            edits, syncQueue, wireLog, fg, tasksFile, st, pubs>>

vars == <<tbVars, syncVars, fgVars>>

\* ------------------------------------------------------------------ bounds
\* Largest flat collection handed to the tree builder.
MaxTasks == 3

\* Ticks of the background ticker in one run.
MaxTicks == 1

\* Calls of ImportTasks in one run.
MaxImports == 1

\* ------------------------------------------------------------ Go slices
\* A Go slice value: nil and empty-but-allocated are different values
\* (json.Marshal writes null for the first and [] for the second).
NilSlice == [isNil |-> TRUE, elems |-> <<>>]

MakeSlice(s) == [isNil |-> FALSE, elems |-> s]

\* append(s, x): the result is never nil.
GoAppend(s, x) == [isNil |-> FALSE, elems |-> Append(s.elems, x)]

GoLen(s) == Len(s.elems)

\* ------------------------------------------------------------ strings
\* Position keys are strings of digits, modelled as sequences of digits so that
\* Go's string comparison (byte-wise lexicographic) can be computed.
Pos0 == <<0>>

Pos1 == <<1>>

Pos10 == <<1, 0>>

Pos2 == <<2>>

Positions == {Pos0, Pos1, Pos10, Pos2}

\* A faulty variant of StrLess, for sensitivity runs: the keys compared as decimal numbers.
RECURSIVE StrNum(_, _)
StrNum(a, acc) == IF a = <<>> THEN acc ELSE StrNum(Tail(a), 10 * acc + Head(a))

StrLessNumeric(a, b) == StrNum(a, 0) < StrNum(b, 0)

\* a < b on Go strings: lexicographic, a proper prefix is smaller.
RECURSIVE StrLess(_, _)
StrLess(a, b) ==
  IF b = <<>> THEN FALSE
  ELSE IF a = <<>> THEN TRUE
  ELSE IF Head(a) < Head(b) THEN TRUE
  ELSE IF Head(a) > Head(b) THEN FALSE
  ELSE StrLess(Tail(a), Tail(b))

\* ------------------------------------------------------------ wire strings
\* An RFC3339 string on the wire: empty, or the formatting of a time.
\* Times are integers; 0 is the zero time.Time.
EmptyStr == [s |-> "empty", t |-> 0]

FormatRFC3339(t) == [s |-> "rfc3339", t |-> t]

\* ------------------------------------------------------------ Task
\* internal.Task with the fields the engine reads or writes (Description,
\* CreatedAt, SelfLink, Etag, Deleted and Links are never set by the engine and
\* are left out).
NewTask(id, title, notes, status, completed, due, completedDate, parent, position, kind, updated, created, tasks) ==
  [Id |-> id, Title |-> title, Notes |-> notes, Status |-> status,
   Completed |-> completed, DueDate |-> due, CompletedDate |-> completedDate,
   Parent |-> parent, Position |-> position, Kind |-> kind, Updated |-> updated,
   Created |-> created, Tasks |-> tasks]

\* v1.Task as returned by Tasks.List: Due and Updated are strings, Completed is
\* a *string (hasCompleted tells whether it is non-nil).
WireTask(id, title, status, parent, position) ==
  [Id |-> id, Title |-> title, Notes |-> "", Status |-> status, Parent |-> parent,
   Position |-> position, Kind |-> "tasks#task", Due |-> EmptyStr,
   hasCompleted |-> FALSE, Completed |-> EmptyStr, Updated |-> EmptyStr]

\* A faulty variant of TaskFromWire, for sensitivity runs: Completed is never set.
TaskFromWireFlagUnset(g) ==
  NewTask(g.Id, g.Title, g.Notes, g.Status, FALSE,
          IF g.Due.s = "rfc3339" THEN g.Due.t ELSE 0,
          IF g.hasCompleted /\ g.Completed.s = "rfc3339" THEN g.Completed.t ELSE 0,
          g.Parent, g.Position, g.Kind,
          IF g.Updated.s = "rfc3339" THEN g.Updated.t ELSE 0,
          0, MakeSlice(<<>>))

\* First pass of fetchGoogleTasks: the Task built from one v1.Task.
TaskFromWire(g) ==
  LET parsedCompleted == g.hasCompleted /\ g.Completed.s = "rfc3339"
  IN  NewTask(g.Id, g.Title, g.Notes, g.Status,
              (g.Status = "completed") \/ parsedCompleted,
              IF g.Due.s = "rfc3339" THEN g.Due.t ELSE 0,
              IF parsedCompleted THEN g.Completed.t ELSE 0,
              g.Parent, g.Position, g.Kind,
              IF g.Updated.s = "rfc3339" THEN g.Updated.t ELSE 0,
              0, MakeSlice(<<>>))

\* taskMap[task.Id] = &task over the items in order: a later item with the same
\* id overwrites an earlier one.
RECURSIVE LastWithId(_, _)
LastWithId(items, id) ==
  IF items[Len(items)].Id = id THEN items[Len(items)]
  ELSE LastWithId(SubSeq(items, 1, Len(items) - 1), id)

MakeTaskMap(items) ==
  [id \in {items[i].Id : i \in 1..Len(items)} |-> TaskFromWire(LastWithId(items, id))]

\* ------------------------------------------------------------ sort.Slice
\* sort.Slice on fewer than 12 elements is an insertion sort: element i moves
\* left while it is less than its left neighbour.
RECURSIVE InsertByPosition(_, _)
InsertByPosition(sorted, x) ==
  IF sorted = <<>> THEN <<x>>
  ELSE IF StrLess(x.Position, sorted[Len(sorted)].Position)
       THEN Append(InsertByPosition(SubSeq(sorted, 1, Len(sorted) - 1), x),
                   sorted[Len(sorted)])
       ELSE Append(sorted, x)

RECURSIVE SortFrom(_, _)
SortFrom(done, rest) ==
  IF rest = <<>> THEN done ELSE SortFrom(InsertByPosition(done, Head(rest)), Tail(rest))

SortByPosition(s) == SortFrom(<<>>, s)

\* ------------------------------------------------------------ tree builder
\* findChildren: the tasks of allTasks whose Parent is parentID, each with its
\* own children attached, sorted by position. depth counts the pending calls.
RECURSIVE findChildren(_, _, _, _)
\* A faulty variant of findChildren, for sensitivity runs: the direct children only, their own children not attached.
findChildrenDirect(parentID, allTasks, taskMap, depth) ==
  LET direct == SelectSeq(allTasks, LAMBDA g : g.Parent = parentID)
  IN  IF direct = <<>> THEN NilSlice
      ELSE MakeSlice(SortByPosition([i \in 1..Len(direct) |-> taskMap[direct[i].Id]]))

ScanChildren(parentID, allTasks, taskMap, depth) ==
  LET RECURSIVE scan(_, _)
      scan(i, children) ==
        IF i > Len(allTasks) THEN children
        ELSE IF allTasks[i].Parent = parentID
             THEN scan(i + 1,
                       GoAppend(children,
                                [taskMap[allTasks[i].Id] EXCEPT
                                   !.Tasks = findChildren(allTasks[i].Id, allTasks,
                                                          taskMap, depth + 1)]))
             ELSE scan(i + 1, children)
  IN  scan(1, NilSlice)

findChildren(parentID, allTasks, taskMap, depth) ==
  LET children == ScanChildren(parentID, allTasks, taskMap, depth)
  IN  [children EXCEPT !.elems = SortByPosition(children.elems)]

\* buildTaskHierarchy: sorts the flat tasks by position, then every task with
\* an empty Parent becomes a root with its children attached.
buildTaskHierarchy(tasks, taskMap) ==
  LET sorted == SortByPosition(tasks)
      RECURSIVE roots(_, _)
      roots(i, rootTasks) ==
        IF i > Len(sorted) THEN rootTasks
        ELSE IF taskMap[sorted[i].Id].Parent = ""
             THEN roots(i + 1,
                        GoAppend(rootTasks,
                                 [taskMap[sorted[i].Id] EXCEPT
                                    !.Tasks = findChildren(sorted[i].Id, sorted,
                                                           taskMap, 1)]))
             ELSE roots(i + 1, rootTasks)
  IN  roots(1, NilSlice)

\* ------------------------------------------------------------ sync state (initial)
Unlocked == [writer |-> "none", readers |-> {}]

\* Identities of backing arrays: an array is named after the statement that
\* allocated it and the clock value or call number that tells its executions apart.
NoArray == <<"none", 0>>

NoRef == [val |-> NilSlice, top |-> NoArray, sub |-> NoArray]

AbsentFile == [state |-> "absent", data |-> <<>>]

\* No program model, no foreground mutation, no persistence exercise.
NoMutation == [kind |-> "none", edit |-> 0, remote |-> "none", tasks |-> NilSlice,
               completedTasks |-> NilSlice, file |-> AbsentFile, saved |-> NilSlice]

StOff == [pc |-> "off", path |-> "none", snapshot |-> NilSlice, prev |-> AbsentFile,
          from |-> "off", file |-> AbsentFile, loaded |-> NilSlice, err |-> FALSE]

FgIdle ==
  /\ uiPc = "none"
  /\ startTasks = NoRef
  /\ pTasks = NilSlice
  /\ pCompletedTasks = NilSlice
  /\ cursor = 0
  /\ currentPath = <<>>
  /\ currentListID = ""
  /\ edits = 0
  /\ syncQueue = <<>>
  /\ wireLog = {}
  /\ fg = NoMutation
  /\ pubs = 0

FgOff ==
  /\ FgIdle
  /\ tasksFile = AbsentFile
  /\ st = StOff

SyncIdle ==
  /\ mainPc = "off"
  /\ remote = <<>>
  /\ now = 1
  /\ cacheTasks = NoRef
  /\ cacheLastSync = 0
  /\ mu = Unlocked
  /\ lastAccess = [who |-> "none", kind |-> "none", held |-> "none"]
  /\ bg = [pc |-> "off", tasks |-> NoRef, changed |-> FALSE]
  /\ imp = [pc |-> "off", tasks |-> NoRef, changed |-> FALSE]
  /\ caller = [pc |-> "idle", ret |-> NoRef, err |-> FALSE]
  /\ imports = 0
  /\ ticks = 0
  /\ currentModel = FALSE
  /\ updateChan = <<>>
  /\ refreshChan = 0
  /\ mTasks = NoRef
  /\ mCompletedTasks = NoRef
  /\ exportQueue = <<>>

SyncOff ==
  /\ SyncIdle
  /\ FgOff
  /\ cacheFile = AbsentFile
  /\ tempFile = AbsentFile

\* ------------------------------------------------------------ tree builder run
\* Ids of the flat input, in input order (ids are interchangeable, so the i-th
\* task of an input is given the i-th id).
TaskIds == <<"A", "B", "C", "D">>

\* A parent id that no task of the input carries.
AbsentId == "X"

InputIds(n) == {TaskIds[i] : i \in 1..n}

\* A flat collection of n tasks with parent references ps and position keys qs.
\* TreeInit draws every parent reference (empty, a task of the input, the task
\* itself, or an absent id) and every position key.
FlatInput(n, ps, qs) ==
  [i \in 1..n |-> WireTask(TaskIds[i], "t", "needsAction", ps[i], qs[i])]

TreeInit ==
  /\ \E n \in 0..MaxTasks :
       \E ps \in [1..n -> InputIds(n) \cup {"", AbsentId}], qs \in [1..n -> Positions] :
         tbTasks = FlatInput(n, ps, qs)
  /\ tbResult = NilSlice
  /\ tbPc = "input"
  /\ SyncOff

\* fetchGoogleTasks line 799: listTask.Tasks = buildTaskHierarchy(tasks.Items, taskMap)
TreeBuild ==
  /\ tbPc = "input"
  /\ tbResult' = buildTaskHierarchy(tbTasks, MakeTaskMap(tbTasks))
  /\ tbPc' = "built"
  /\ UNCHANGED <<tbTasks, syncVars, fgVars>>

TreeNext == TreeBuild

SpecTree == TreeInit /\ [][TreeNext]_vars

\* ------------------------------------------------------------ tree builder claims
\* The forest flattened back: one <<id, holder>> pair per node, holder being the
\* id of the node whose child sequence holds it ("" for a root).
RECURSIVE Flatten(_, _)
Flatten(forest, holder) ==
  LET RECURSIVE walk(_)
      walk(i) ==
        IF i > Len(forest.elems) THEN <<>>
        ELSE <<<<forest.elems[i].Id, holder>>>>
             \o Flatten(forest.elems[i].Tasks, forest.elems[i].Id)
             \o walk(i + 1)
  IN  walk(1)

Occurrences(seq, x) == Cardinality({i \in 1..Len(seq) : seq[i] = x})

InputIdsOf(tasks) == {tasks[i].Id : i \in 1..Len(tasks)}

ParentOf(tasks, id) == (CHOOSE i \in 1..Len(tasks) : tasks[i].Id = id).Parent

\* Following parent references from id for k steps ends at the empty parent.
RECURSIVE ReachesRoot(_, _, _)
ReachesRoot(tasks, id, k) ==
  IF id = "" THEN TRUE
  ELSE IF k = 0 \/ id \notin InputIdsOf(tasks) THEN FALSE
  ELSE ReachesRoot(tasks, tasks[CHOOSE i \in 1..Len(tasks) : tasks[i].Id = id].Parent, k - 1)

\* Unique ids, every parent empty or the id of a task of the input, no cycle.
ValidForest(tasks) ==
  /\ \A i, j \in 1..Len(tasks) : tasks[i].Id = tasks[j].Id => i = j
  /\ \A i \in 1..Len(tasks) : tasks[i].Parent \in InputIdsOf(tasks) \cup {""}
  /\ \A i \in 1..Len(tasks) : ReachesRoot(tasks, tasks[i].Id, Len(tasks))

IsOrphan(tasks, i) ==
  tasks[i].Parent # "" /\ tasks[i].Parent \notin InputIdsOf(tasks)

\* C1: for a flat collection with unique ids and valid, acyclic parent references,
\* flattening the forest built by buildTaskHierarchy gives back exactly the input's
\* id-to-parent mapping, every input task exactly once.
C1_RoundTrip ==
  (tbPc = "built" /\ ValidForest(tbTasks)) =>
    LET flat == Flatten(tbResult, "")
    IN  /\ Len(flat) = Len(tbTasks)
        /\ \A i \in 1..Len(tbTasks) :
             Occurrences(flat, <<tbTasks[i].Id, tbTasks[i].Parent>>) = 1

\* A three-level chain given child-first (C under B under A, input order A, B, C
\* with A the deepest) has been built.
C1_Witness ==
  /\ tbPc = "built"
  /\ Len(tbTasks) = 3
  /\ ValidForest(tbTasks)
  /\ tbTasks[1].Parent = "B" /\ tbTasks[2].Parent = "C" /\ tbTasks[3].Parent = ""
  /\ Flatten(tbResult, "") = <<<<"C", "">>, <<"B", "C">>, <<"A", "B">>>>

\* a precedes b in lexicographic order: they agree on the first k characters and
\* then a ends, or a's next character is smaller.
LexBefore(a, b) ==
  \E k \in 0..Len(a) :
    /\ k <= Len(b)
    /\ \A j \in 1..k : a[j] = b[j]
    /\ \/ k = Len(a) /\ k < Len(b)
       \/ k < Len(a) /\ k < Len(b) /\ a[k + 1] < b[k + 1]

\* Every sibling group of the forest is non-decreasing in lexicographic order of Position.
RECURSIVE SiblingsOrdered(_)
SiblingsOrdered(forest) ==
  /\ \A i \in 1..(Len(forest.elems) - 1) :
       ~LexBefore(forest.elems[i + 1].Position, forest.elems[i].Position)
  /\ \A i \in 1..Len(forest.elems) : SiblingsOrdered(forest.elems[i].Tasks)

\* C2: every sibling group of the output, the roots included, is ordered
\* non-decreasingly by lexicographic comparison of position.
C2_SiblingOrder == tbPc = "built" => SiblingsOrdered(tbResult)

\* Root A (position "1") with children B (position "1") and C (position "0"),
\* given in the order A, B, C, is built with A's children in the order C, B.
C2_Witness ==
  /\ tbPc = "built"
  /\ tbTasks = <<WireTask("A", "t", "needsAction", "", Pos1),
                 WireTask("B", "t", "needsAction", "A", Pos1),
                 WireTask("C", "t", "needsAction", "A", Pos0)>>
  /\ Len(tbResult.elems) = 1
  /\ tbResult.elems[1].Id = "A"
  /\ [i \in 1..2 |-> tbResult.elems[1].Tasks.elems[i].Id] = <<"C", "B">>

\* C3: a task whose non-empty parent id is the id of no task of the input appears
\* at the root level of the output.
C3_OrphanAtRoot ==
  tbPc = "built" =>
    \A i \in 1..Len(tbTasks) :
      IsOrphan(tbTasks, i) =>
        \E r \in 1..Len(tbResult.elems) : tbResult.elems[r].Id = tbTasks[i].Id

\* ------------------------------------------------------------ JSON
\* encoding/json on []Task: a nil slice is written null, any other slice an
\* array; every field goes under its json tag; a time.Time is written as its
\* RFC3339 text.
RECURSIVE MarshalTasks(_)
MarshalTask(t) ==
  [id |-> t.Id, title |-> t.Title, notes |-> t.Notes, status |-> t.Status,
   completed |-> t.Completed, dueDate |-> FormatRFC3339(t.DueDate),
   completedDate |-> FormatRFC3339(t.CompletedDate), parent |-> t.Parent,
   position |-> t.Position, kind |-> t.Kind, updated |-> FormatRFC3339(t.Updated),
   created |-> FormatRFC3339(t.Created), tasks |-> MarshalTasks(t.Tasks)]

MarshalTasks(s) ==
  IF s.isNil THEN [json |-> "null", items |-> <<>>]
  ELSE [json |-> "array", items |-> [i \in 1..Len(s.elems) |-> MarshalTask(s.elems[i])]]

\* A faulty variant of UnmarshalTask, for sensitivity runs: the nested tasks are not read.
UnmarshalTaskFlat(o) ==
  NewTask(o.id, o.title, o.notes, o.status, o.completed, o.dueDate.t, o.completedDate.t,
          o.parent, o.position, o.kind, o.updated.t, o.created.t, NilSlice)

RECURSIVE UnmarshalTasks(_)
UnmarshalTask(o) ==
  NewTask(o.id, o.title, o.notes, o.status, o.completed, o.dueDate.t, o.completedDate.t,
          o.parent, o.position, o.kind, o.updated.t, o.created.t, UnmarshalTasks(o.tasks))

UnmarshalTasks(j) ==
  IF j.json = "null" THEN NilSlice
  ELSE MakeSlice([i \in 1..Len(j.items) |-> UnmarshalTask(j.items[i])])

\* A faulty variant of tasksEqual, for sensitivity runs: the lengths alone are compared.
tasksEqualCountOnly(a, b) == GoLen(a) = GoLen(b)

\* tasksEqual: same length and the same JSON bytes.
tasksEqual(a, b) ==
  IF GoLen(a) # GoLen(b) THEN FALSE ELSE MarshalTasks(a) = MarshalTasks(b)

\* ------------------------------------------------------------ remote service
RemoteTaskA(title) == WireTask("A", title, "needsAction", "", Pos1)

\* The service gives a completed task its completion date.
RemoteTaskB ==
  [WireTask("B", "b", "completed", "A", Pos1) EXCEPT !.hasCompleted = TRUE,
                                                     !.Completed = FormatRFC3339(1)]

RemoteTaskD == WireTask("D", "d", "needsAction", "", Pos0)

RemoteList1(title) ==
  [Id |-> "L1", Title |-> "list1", Kind |-> "tasks#taskList",
   Items |-> <<RemoteTaskA(title), RemoteTaskB>>]

RemoteList2 ==
  [Id |-> "L2", Title |-> "list2", Kind |-> "tasks#taskList", Items |-> <<RemoteTaskD>>]

ListIdsOf(lists) == [i \in 1..Len(lists) |-> lists[i].Id]

\* A faulty variant of fetchGoogleTasks, for sensitivity runs: a list whose Tasks.List call fails aborts the fetch.
fetchAbortsOnListError(lists, listsOk, failed, t) ==
  IF ~listsOk \/ failed # {} THEN [err |-> TRUE, tasks |-> NilSlice]
  ELSE [err |-> FALSE,
        tasks |-> MakeSlice([i \in 1..Len(lists) |->
                    NewTask(lists[i].Id, lists[i].Title, "", "", FALSE, 0, 0, "", <<>>,
                            lists[i].Kind, t, t,
                            buildTaskHierarchy(lists[i].Items, MakeTaskMap(lists[i].Items)))])]

\* A faulty variant of fetchGoogleTasks, for sensitivity runs: a list whose Tasks.List call fails is kept as a container without tasks.
fetchKeepsFailedAsEmpty(lists, listsOk, failed, t) ==
  IF ~listsOk THEN [err |-> TRUE, tasks |-> NilSlice]
  ELSE [err |-> FALSE,
        tasks |-> MakeSlice([i \in 1..Len(lists) |->
                    NewTask(lists[i].Id, lists[i].Title, "", "", FALSE, 0, 0, "", <<>>,
                            lists[i].Kind, t, t,
                            IF lists[i].Id \in failed THEN MakeSlice(<<>>)
                            ELSE buildTaskHierarchy(lists[i].Items,
                                                    MakeTaskMap(lists[i].Items)))])]

\* fetchGoogleTasks with a client: lists is what Tasklists.List returns (listsOk
\* false when that call fails), failed the ids of the lists whose Tasks.List call
\* fails, t the value of time.Now().
fetchGoogleTasks(lists, listsOk, failed, t) ==
  LET RECURSIVE each(_, _)
      each(i, allTasks) ==
        IF i > Len(lists) THEN allTasks
        ELSE IF lists[i].Id \in failed THEN each(i + 1, allTasks)
        ELSE each(i + 1,
                  GoAppend(allTasks,
                           NewTask(lists[i].Id, lists[i].Title, "", "", FALSE, 0, 0, "", <<>>,
                                   lists[i].Kind, t, t,
                                   buildTaskHierarchy(lists[i].Items,
                                                      MakeTaskMap(lists[i].Items)))))
  IN  IF ~listsOk THEN [err |-> TRUE, tasks |-> NilSlice]
      ELSE [err |-> FALSE, tasks |-> each(1, NilSlice)]

\* A slice value together with the identity of its backing array (top) and of
\* the backing arrays of the nested Tasks slices (sub).
Ref(val, top, sub) == [val |-> val, top |-> top, sub |-> sub]

\* ------------------------------------------------------------ cache file
JsonFile(data) == [state |-> "json", data |-> data]

CorruptFile == [state |-> "corrupt", data |-> <<>>]

\* A snapshot written by an earlier run of the program.
EarlierSnapshot == fetchGoogleTasks(<<RemoteList1("t1"), RemoteList2>>, TRUE, {}, 0).tasks

\* loadCachedTasks: the value of taskCache.Tasks afterwards. A missing file gives
\* a fresh empty slice, an unreadable or unparsable file leaves the cache as it is.
loadCachedTasks(file, tasks, call) ==
  IF file.state = "absent" THEN Ref(MakeSlice(<<>>), <<"make310", call>>, <<"make310", call>>)
  ELSE IF file.state = "corrupt" THEN tasks
  ELSE Ref(UnmarshalTasks(file.data), <<"unmarshal", call>>, <<"unmarshal", call>>)

\* A faulty variant of saveCachedTasks, for sensitivity runs: the data is written
\* to the cache file itself.
saveCachedTasksInPlace(tasks, outcome, file, temp) ==
  IF outcome = "dirFail" THEN <<file, temp>>
  ELSE IF outcome \in {"writeFail", "renameFail"} THEN <<CorruptFile, temp>>
  ELSE <<JsonFile(MarshalTasks(tasks)), temp>>

\* saveCachedTasks under each outcome of the file system: <<cache file, temp file>>.
saveCachedTasks(tasks, outcome, file, temp) ==
  IF outcome = "dirFail" THEN <<file, temp>>
  ELSE IF outcome = "writeFail" THEN <<file, CorruptFile>>
  ELSE IF outcome = "renameFail" THEN <<file, AbsentFile>>
  ELSE <<JsonFile(MarshalTasks(tasks)), AbsentFile>>

SaveOutcomes == {"ok", "dirFail", "writeFail", "renameFail"}

\* ------------------------------------------------------------ UI model channels
\* make(chan []Task, 10)
UpdateChanCap == 10

\* make(chan struct{}, 1)
RefreshChanCap == 1

\* splitTasks: <<active, completed>>, both freshly allocated.
splitTasks(tasks) ==
  <<MakeSlice(SelectSeq(tasks.elems, LAMBDA t : ~t.Completed)),
    MakeSlice(SelectSeq(tasks.elems, LAMBDA t : t.Completed))>>

\* UpdateTasks: whether the select sends on updateChan (it has room) or takes
\* the default branch.
UpdateTasksSends(chan) == Len(chan) < UpdateChanCap

\* ------------------------------------------------------------ sync engine state
Goroutine(pc) ==
  [pc |-> pc, tasks |-> NoRef, changed |-> FALSE, saveErr |-> FALSE, listed |-> <<>>,
   failed |-> {}, err |-> FALSE]

\* The lock a thread holds on taskCache.mu.
HeldBy(self) ==
  IF mu.writer = self THEN "W" ELSE IF self \in mu.readers THEN "R" ELSE "none"

Access(self, kind) == [who |-> self, kind |-> kind, held |-> HeldBy(self)]

SyncInit ==
  /\ mainPc = "start"
  /\ remote = <<RemoteList1("t1"), RemoteList2>>
  /\ now = 1
  /\ cacheTasks = NoRef
  /\ cacheLastSync = 0
  /\ mu = Unlocked
  /\ lastAccess = [who |-> "none", kind |-> "none", held |-> "none"]
  /\ cacheFile \in {AbsentFile, CorruptFile, JsonFile(MarshalTasks(EarlierSnapshot))}
  /\ tempFile = AbsentFile
  /\ bg = Goroutine("off")
  /\ imp = Goroutine("off")
  /\ caller = [pc |-> "idle", ret |-> NoRef, err |-> FALSE]
  /\ imports = 0
  /\ ticks = 0
  /\ currentModel = FALSE
  /\ updateChan = <<>>
  /\ refreshChan = 0
  /\ mTasks = NoRef
  /\ mCompletedTasks = NoRef
  /\ exportQueue = <<>>
  /\ tbTasks = <<>>
  /\ tbResult = NilSlice
  /\ tbPc = "off"
  /\ FgOff

\* InitializeGoogleTasks: the client and the cache are created, the cache file
\* is loaded (no lock is taken) and the background ticker is started.
InitializeGoogleTasks ==
  /\ mainPc = "start"
  /\ mainPc' = "running"
  /\ cacheTasks' = loadCachedTasks(cacheFile,
                                   Ref(MakeSlice(<<>>), <<"make257", 0>>, <<"make257", 0>>), 0)
  /\ cacheLastSync' = 0
  /\ lastAccess' = Access("main", "write")
  /\ bg' = Goroutine("idle")
  /\ UNCHANGED <<remote, now, mu, cacheFile, tempFile, imp, caller, imports, ticks, currentModel,
                 updateChan, refreshChan, mTasks, mCompletedTasks, exportQueue, tbVars, fgVars>>

\* The remote service changes on its own (another client edits it).
RemoteRetitle ==
  /\ \E title \in {"t1", "t2"} :
       /\ remote[1].Items[1].Title # title
       /\ remote' = [remote EXCEPT ![1].Items[1].Title = title]
  /\ UNCHANGED <<mainPc, now, cacheTasks, cacheLastSync, mu, lastAccess,
                 cacheFile, tempFile, bg, imp, caller, imports, ticks, currentModel, updateChan,
                 refreshChan, mTasks, mCompletedTasks, exportQueue, tbVars, fgVars>>

\* SetCurrentModel(m) with a model built by NewModel.
SetCurrentModel ==
  /\ mainPc = "running"
  /\ ~currentModel
  /\ currentModel' = TRUE
  /\ UNCHANGED <<mainPc, remote, now, cacheTasks, cacheLastSync, mu, lastAccess,
                 cacheFile, tempFile, bg, imp, caller, imports, ticks, updateChan, refreshChan,
                 mTasks, mCompletedTasks, exportQueue, tbVars, fgVars>>

\* ------------------------------------------------------------ reconciliation
\* A faulty variant of OnFetchError, for sensitivity runs: the goroutine returns instead of continuing the loop.
OnFetchErrorReturns(g) == [g EXCEPT !.pc = "done", !.err = TRUE]

\* startBackgroundSync lines 278-281: the error is printed and the loop continues.
OnFetchError(g) == [g EXCEPT !.pc = "idle", !.err = TRUE]

\* One call of fetchGoogleTasks by goroutine g (g2 is g afterwards, onErr what
\* the caller does with an error): Tasklists.List and each Tasks.List may fail.
Fetch(g, g2, onErr) ==
  \E listsOk \in BOOLEAN, failed \in SUBSET {remote[i].Id : i \in 1..Len(remote)} :
    /\ listsOk \/ failed = {}
    /\ LET r == fetchGoogleTasks(remote, listsOk, failed, now)
       IN  IF r.err
           THEN /\ g2 = [onErr EXCEPT !.failed = failed]
                /\ UNCHANGED now
           ELSE /\ g2 = [g EXCEPT !.pc = "fetched",
                                  !.tasks = Ref(r.tasks, <<"fetch", now>>, <<"fetch", now>>),
                                  !.listed = ListIdsOf(remote), !.failed = failed]
                /\ now' = now + 1

\* Lines 284-292 (and 379-387), run with taskCache.mu held: compare, and when the
\* candidate differs replace the cache, stamp LastSync, save the cache file and
\* notify the UI model.
Reconcile(self, g, g2) ==
  LET changed == ~tasksEqual(cacheTasks.val, g.tasks.val)
  IN  /\ IF changed
         THEN /\ cacheTasks' = g.tasks
              /\ cacheLastSync' = now
              /\ now' = now + 1
              /\ \E outcome \in SaveOutcomes :
                   /\ cacheFile' = saveCachedTasks(g.tasks.val, outcome, cacheFile, tempFile)[1]
                   /\ tempFile' = saveCachedTasks(g.tasks.val, outcome, cacheFile, tempFile)[2]
                   /\ g2 = [g EXCEPT !.pc = "reconciled", !.changed = TRUE,
                                     !.saveErr = (outcome # "ok")]
              /\ IF currentModel /\ UpdateTasksSends(updateChan)
                 THEN /\ updateChan' = Append(updateChan, g.tasks)
                      /\ exportQueue' = Append(exportQueue, g.tasks.val)
                 ELSE UNCHANGED <<updateChan, exportQueue>>
              /\ lastAccess' = Access(self, "write")
         ELSE /\ g2 = [g EXCEPT !.pc = "reconciled", !.changed = FALSE]
              /\ lastAccess' = Access(self, "read")
              /\ UNCHANGED <<cacheTasks, cacheLastSync, now, cacheFile, tempFile,
                             updateChan, exportQueue>>

LockFree == mu.writer = "none" /\ mu.readers = {}

\* A thread that goes on without releasing the write lock.
UnlockSkipped(m) == m

\* taskCache.mu.Unlock() (main.go lines 293 and 388).
Unlock(m) == [m EXCEPT !.writer = "none"]

\* ------------------------------------------------------------ background ticker
\* for range ticker.C: the ticker fires.
BgTick ==
  /\ bg.pc = "idle"
  /\ ticks < MaxTicks
  /\ ticks' = ticks + 1
  /\ bg' = Goroutine("fetching")
  /\ UNCHANGED <<mainPc, remote, now, cacheTasks, cacheLastSync, mu, lastAccess,
                 cacheFile, tempFile, imp, caller, imports, currentModel, updateChan,
                 refreshChan, mTasks, mCompletedTasks, exportQueue, tbVars, fgVars>>

BgFetch ==
  /\ bg.pc = "fetching"
  /\ Fetch(bg, bg', OnFetchError(bg))
  /\ UNCHANGED <<mainPc, remote, cacheTasks, cacheLastSync, mu, lastAccess,
                 cacheFile, tempFile, imp, caller, imports, ticks, currentModel, updateChan,
                 refreshChan, mTasks, mCompletedTasks, exportQueue, tbVars, fgVars>>

BgLock ==
  /\ bg.pc = "fetched"
  /\ LockFree
  /\ mu' = [mu EXCEPT !.writer = "bg"]
  /\ bg' = [bg EXCEPT !.pc = "locked"]
  /\ UNCHANGED <<mainPc, remote, now, cacheTasks, cacheLastSync, lastAccess,
                 cacheFile, tempFile, imp, caller, imports, ticks, currentModel, updateChan,
                 refreshChan, mTasks, mCompletedTasks, exportQueue, tbVars, fgVars>>

BgReconcile ==
  /\ bg.pc = "locked"
  /\ Reconcile("bg", bg, bg')
  /\ UNCHANGED <<mainPc, remote, mu, imp, caller, imports, ticks, currentModel,
                 refreshChan, mTasks, mCompletedTasks, tbVars, fgVars>>

BgUnlock ==
  /\ bg.pc = "reconciled"
  /\ mu' = Unlock(mu)
  /\ bg' = Goroutine("idle")
  /\ UNCHANGED <<mainPc, remote, now, cacheTasks, cacheLastSync, lastAccess,
                 cacheFile, tempFile, imp, caller, imports, ticks, currentModel, updateChan,
                 refreshChan, mTasks, mCompletedTasks, exportQueue, tbVars, fgVars>>

\* ------------------------------------------------------------ ImportTasks
\* ImportTasks lines 364-389 with UseGoogleTasks set: the cache file is loaded
\* (no lock is taken) and the fetch goroutine is started.
ImportTasks ==
  /\ mainPc = "running"
  /\ caller.pc = "idle"
  /\ imp.pc \in {"off", "done"}
  /\ imports < MaxImports
  /\ imports' = imports + 1
  /\ cacheTasks' = loadCachedTasks(cacheFile, cacheTasks, imports + 1)
  /\ cacheLastSync' = IF cacheFile.state = "absent" THEN 0 ELSE cacheLastSync
  /\ lastAccess' = IF cacheFile.state = "corrupt" THEN lastAccess
                   ELSE Access("caller", "write")
  /\ imp' = Goroutine("fetching")
  /\ caller' = [pc |-> "spawned", ret |-> NoRef, err |-> FALSE]
  /\ UNCHANGED <<mainPc, remote, now, mu, cacheFile, tempFile, bg, ticks, currentModel,
                 updateChan, refreshChan, mTasks, mCompletedTasks, exportQueue, tbVars, fgVars>>

\* Line 392: taskCache.mu.RLock()
CallerRLock ==
  /\ caller.pc = "spawned"
  /\ mu.writer = "none"
  /\ mu' = [mu EXCEPT !.readers = @ \cup {"caller"}]
  /\ caller' = [caller EXCEPT !.pc = "rlocked"]
  /\ UNCHANGED <<mainPc, remote, now, cacheTasks, cacheLastSync, lastAccess,
                 cacheFile, tempFile, bg, imp, imports, ticks, currentModel, updateChan,
                 refreshChan, mTasks, mCompletedTasks, exportQueue, tbVars, fgVars>>

\* Lines 395-400: a non-empty cache is copied with copy() into a new slice of
\* the same length (the elements' Tasks slices are copied as slice headers) and
\* returned; the deferred RUnlock runs.
CallerReturnCached ==
  /\ caller.pc = "rlocked"
  /\ GoLen(cacheTasks.val) > 0
  /\ caller' = [pc |-> "idle", err |-> FALSE,
                ret |-> Ref(MakeSlice(cacheTasks.val.elems), <<"copy", imports>>,
                            cacheTasks.sub)]
  /\ lastAccess' = Access("caller", "read")
  /\ mu' = [mu EXCEPT !.readers = @ \ {"caller"}]
  /\ UNCHANGED <<mainPc, remote, now, cacheTasks, cacheLastSync, cacheFile, tempFile, bg,
                 imp, imports, ticks, currentModel, updateChan, refreshChan, mTasks,
                 mCompletedTasks, exportQueue, tbVars, fgVars>>

\* Lines 395 and 403-404: the cache is empty, fetchGoogleTasks is called with the
\* read lock still held.
CallerFetchStart ==
  /\ caller.pc = "rlocked"
  /\ GoLen(cacheTasks.val) = 0
  /\ caller' = [caller EXCEPT !.pc = "netcall"]
  /\ lastAccess' = Access("caller", "read")
  /\ UNCHANGED <<mainPc, remote, now, cacheTasks, cacheLastSync, mu,
                 cacheFile, tempFile, bg, imp, imports, ticks, currentModel, updateChan,
                 refreshChan, mTasks, mCompletedTasks, exportQueue, tbVars, fgVars>>

\* Line 404 returns what fetchGoogleTasks returned; the deferred RUnlock runs.
CallerFetchDone ==
  /\ caller.pc = "netcall"
  /\ \E listsOk \in BOOLEAN, failed \in SUBSET {remote[i].Id : i \in 1..Len(remote)} :
       /\ listsOk \/ failed = {}
       /\ LET r == fetchGoogleTasks(remote, listsOk, failed, now)
          IN  /\ caller' = [pc |-> "idle", err |-> r.err,
                            ret |-> IF r.err THEN NoRef
                                    ELSE Ref(r.tasks, <<"fetch", now>>, <<"fetch", now>>)]
              /\ now' = IF r.err THEN now ELSE now + 1
  /\ mu' = [mu EXCEPT !.readers = @ \ {"caller"}]
  /\ UNCHANGED <<mainPc, remote, cacheTasks, cacheLastSync, lastAccess, cacheFile,
                 tempFile, bg, imp, imports, ticks, currentModel, updateChan, refreshChan,
                 mTasks, mCompletedTasks, exportQueue, tbVars, fgVars>>

\* The goroutine of lines 371-389. On a fetch error it returns.
ImpFetch ==
  /\ imp.pc = "fetching"
  /\ Fetch(imp, imp', [imp EXCEPT !.pc = "done", !.err = TRUE])
  /\ UNCHANGED <<mainPc, remote, cacheTasks, cacheLastSync, mu, lastAccess,
                 cacheFile, tempFile, bg, caller, imports, ticks, currentModel, updateChan,
                 refreshChan, mTasks, mCompletedTasks, exportQueue, tbVars, fgVars>>

ImpLock ==
  /\ imp.pc = "fetched"
  /\ LockFree
  /\ mu' = [mu EXCEPT !.writer = "imp"]
  /\ imp' = [imp EXCEPT !.pc = "locked"]
  /\ UNCHANGED <<mainPc, remote, now, cacheTasks, cacheLastSync, lastAccess,
                 cacheFile, tempFile, bg, caller, imports, ticks, currentModel, updateChan,
                 refreshChan, mTasks, mCompletedTasks, exportQueue, tbVars, fgVars>>

ImpReconcile ==
  /\ imp.pc = "locked"
  /\ Reconcile("imp", imp, imp')
  /\ UNCHANGED <<mainPc, remote, mu, bg, caller, imports, ticks, currentModel,
                 refreshChan, mTasks, mCompletedTasks, tbVars, fgVars>>

ImpUnlock ==
  /\ imp.pc = "reconciled"
  /\ mu' = Unlock(mu)
  /\ imp' = Goroutine("done")
  /\ UNCHANGED <<mainPc, remote, now, cacheTasks, cacheLastSync, lastAccess,
                 cacheFile, tempFile, bg, caller, imports, ticks, currentModel, updateChan,
                 refreshChan, mTasks, mCompletedTasks, exportQueue, tbVars, fgVars>>

\* ------------------------------------------------------------ UI model
\* handleUpdates: one iteration of for tasks := range m.updateChan.
handleUpdates ==
  /\ updateChan # <<>>
  /\ LET tasks == Head(updateChan)
     IN  /\ mTasks' = Ref(splitTasks(tasks.val)[1], <<"active", tasks.top[2]>>, tasks.sub)
         /\ mCompletedTasks' = Ref(splitTasks(tasks.val)[2], <<"completed", tasks.top[2]>>,
                                   tasks.sub)
  /\ updateChan' = Tail(updateChan)
  /\ refreshChan' = IF refreshChan < RefreshChanCap THEN refreshChan + 1 ELSE refreshChan
  /\ UNCHANGED <<mainPc, remote, now, cacheTasks, cacheLastSync, mu, lastAccess, cacheFile,
                 tempFile, bg, imp, caller, imports, ticks, currentModel, exportQueue, tbVars, fgVars>>

\* waitForRefresh: the UI loop takes a refresh signal.
waitForRefresh ==
  /\ refreshChan > 0
  /\ refreshChan' = refreshChan - 1
  /\ UNCHANGED <<mainPc, remote, now, cacheTasks, cacheLastSync, mu, lastAccess,
                 cacheFile, tempFile, bg, imp, caller, imports, ticks, currentModel, updateChan,
                 mTasks, mCompletedTasks, exportQueue, tbVars, fgVars>>

\* ------------------------------------------------------------ ExportToGoogle
\* The remote writes of exportTasksInList, in call order: one UpdateTask per task
\* with the fields it sends (every task of a fetched snapshot carries an id),
\* children after their parent.
RECURSIVE exportTasksInList(_)
exportTasksInList(tasks) ==
  LET RECURSIVE each(_)
      each(i) ==
        IF i > Len(tasks.elems) THEN <<>>
        ELSE <<[op |-> "updateTask", id |-> tasks.elems[i].Id,
                 title |-> tasks.elems[i].Title, notes |-> tasks.elems[i].Notes,
                 status |-> tasks.elems[i].Status,
                 due |-> FormatRFC3339(tasks.elems[i].DueDate)]>>
             \o exportTasksInList(tasks.elems[i].Tasks) \o each(i + 1)
  IN  each(1)

\* The remote writes of ExportToGoogle: per task list, Tasklists.Update and then
\* its tasks.
ExportWrites(tasks) ==
  LET RECURSIVE each(_)
      each(i) ==
        IF i > Len(tasks.elems) THEN <<>>
        ELSE IF tasks.elems[i].Kind # "tasks#taskList" THEN each(i + 1)
        ELSE <<[op |-> "updateList", id |-> tasks.elems[i].Id,
                 title |-> tasks.elems[i].Title, notes |-> "", status |-> "",
                 due |-> EmptyStr]>>
             \o exportTasksInList(tasks.elems[i].Tasks) \o each(i + 1)
  IN  each(1)

\* Whether the remote service accepts a write: Tasklists.Update needs the list,
\* UpdateTask addresses the first list and needs the task in it.
WriteAccepted(rem, w) ==
  IF w.op = "updateList" THEN \E i \in 1..Len(rem) : rem[i].Id = w.id
  ELSE /\ Len(rem) > 0
       /\ \E k \in 1..Len(rem[1].Items) : rem[1].Items[k].Id = w.id

\* The remote service after an accepted write. UpdateTask sends Title, Notes,
\* Status and Due and no completion date: the service keeps a completion date
\* exactly on the tasks whose status is completed. A Due that is the formatting of the zero time is read back by
\* fetchGoogleTasks as the zero DueDate, exactly as an absent Due is, and nothing
\* else reads it: the service is modelled as holding no Due in that case.
ApplyWrite(rem, w) ==
  IF w.op = "updateList"
  THEN [i \in 1..Len(rem) |->
          IF rem[i].Id = w.id THEN [rem[i] EXCEPT !.Title = w.title] ELSE rem[i]]
  ELSE [rem EXCEPT ![1].Items =
          [k \in 1..Len(rem[1].Items) |->
             IF rem[1].Items[k].Id = w.id
             THEN [rem[1].Items[k] EXCEPT !.Title = w.title, !.Notes = w.notes,
                                          !.Status = w.status,
                                          !.hasCompleted = (w.status = "completed"),
                                          !.Completed = IF w.status = "completed"
                                                        THEN FormatRFC3339(1) ELSE EmptyStr,
                                          !.Due = IF w.due.t = 0 THEN EmptyStr ELSE w.due]
             ELSE rem[1].Items[k]]]

\* The remote service after the first n writes of ws, stopping at the first one
\* that is refused.
RECURSIVE ApplyWrites(_, _, _)
ApplyWrites(rem, ws, n) ==
  IF n = 0 \/ ws = <<>> THEN rem
  ELSE IF ~WriteAccepted(rem, Head(ws)) THEN rem
  ELSE ApplyWrites(ApplyWrite(rem, Head(ws)), Tail(ws), n - 1)

\* The v1.Task payloads among the first n writes of ws that are sent: the op and
\* the Due field of each, up to and including the first write that is refused.
RECURSIVE SentWrites(_, _, _)
SentWrites(rem, ws, n) ==
  IF n = 0 \/ ws = <<>> THEN {}
  ELSE (IF Head(ws).op = "updateList" THEN {} ELSE {[op |-> Head(ws).op, due |-> Head(ws).due]})
         \cup (IF ~WriteAccepted(rem, Head(ws)) THEN {}
               ELSE SentWrites(ApplyWrite(rem, Head(ws)), Tail(ws), n - 1))

\* The goroutine started by UpdateTasks (lines 976-981): ExportToGoogle(tasks).
\* The remote may become unreachable after any number of its writes.
ExportToGoogle ==
  /\ exportQueue # <<>>
  /\ \E n \in 0..Len(ExportWrites(Head(exportQueue))) :
       /\ remote' = ApplyWrites(remote, ExportWrites(Head(exportQueue)), n)
       /\ wireLog' = wireLog \cup SentWrites(remote, ExportWrites(Head(exportQueue)), n)
  /\ exportQueue' = Tail(exportQueue)
  /\ UNCHANGED <<mainPc, now, cacheTasks, cacheLastSync, mu, lastAccess,
                 cacheFile, tempFile, bg, imp, caller, imports, ticks, currentModel, updateChan,
                 refreshChan, mTasks, mCompletedTasks, tbVars, uiPc, startTasks, pTasks,
                 pCompletedTasks, cursor, currentPath, currentListID, edits, syncQueue, fg,
                 tasksFile, st, pubs>>

\* ------------------------------------------------------------ specification
Init == SyncInit

Next ==
  \/ InitializeGoogleTasks
  \/ RemoteRetitle
  \/ SetCurrentModel
  \/ BgTick
  \/ BgFetch
  \/ BgLock
  \/ BgReconcile
  \/ BgUnlock
  \/ ImportTasks
  \/ CallerRLock
  \/ CallerReturnCached
  \/ CallerFetchStart
  \/ CallerFetchDone
  \/ ImpFetch
  \/ ImpLock
  \/ ImpReconcile
  \/ ImpUnlock
  \/ handleUpdates
  \/ waitForRefresh
  \/ ExportToGoogle

Spec == Init /\ [][Next]_vars

\* The program as main starts it in Google mode: InitializeGoogleTasks and the
\* ticker, the UI model and its goroutines; ImportTasks is not called.
PollNext ==
  \/ InitializeGoogleTasks
  \/ RemoteRetitle
  \/ SetCurrentModel
  \/ BgTick
  \/ BgFetch
  \/ BgLock
  \/ BgReconcile
  \/ BgUnlock
  \/ handleUpdates
  \/ waitForRefresh
  \/ ExportToGoogle

SpecPoll == Init /\ [][PollNext]_vars


\* The ticker together with a caller of ImportTasks in Google mode: the three
\* threads that touch taskCache. The consumers of the UI model's channels and
\* the export goroutines do not touch it and are left out.
ImportNext ==
  \/ InitializeGoogleTasks
  \/ RemoteRetitle
  \/ SetCurrentModel
  \/ BgTick
  \/ BgFetch
  \/ BgLock
  \/ BgReconcile
  \/ BgUnlock
  \/ ImportTasks
  \/ CallerRLock
  \/ CallerReturnCached
  \/ CallerFetchStart
  \/ CallerFetchDone
  \/ ImpFetch
  \/ ImpLock
  \/ ImpReconcile
  \/ ImpUnlock

SpecImport == Init /\ [][ImportNext]_vars

\* ------------------------------------------------------------ reconciliation claims
\* The lists and tasks of a snapshot without the Updated / Created stamps that
\* fetchGoogleTasks puts on the list containers.
Entities(s) == [i \in 1..Len(s.elems) |-> [s.elems[i] EXCEPT !.Updated = 0, !.Created = 0]]

SameEntities(a, b) == a.isNil = b.isNil /\ Entities(a) = Entities(b)

\* The background goroutine runs lines 284-292 in this step.
BgReconcileStep == bg.pc = "locked" /\ bg'.pc = "reconciled"

\* C4: a cycle whose fetch returns the same lists and tasks as the cached snapshot
\* leaves taskCache.Tasks, LastSync and the cache file unchanged and sends no
\* notification.
C4_UnchangedRemoteNoEffect ==
  [][(BgReconcileStep /\ SameEntities(bg.tasks.val, cacheTasks.val)) =>
       /\ cacheTasks' = cacheTasks
       /\ cacheLastSync' = cacheLastSync
       /\ cacheFile' = cacheFile
       /\ updateChan' = updateChan]_vars

InFlight(g) == g.pc \in {"fetching", "fetched", "locked", "reconciled"}

\* C6: the reconciliation of the ticker and the one started by ImportTasks are
\* never in progress at the same time.
C6_OneReconciliation == ~(InFlight(bg) /\ InFlight(imp))

\* C7: every write of taskCache.Tasks / LastSync by the ticker goroutine, the
\* ImportTasks goroutine or the thread calling ImportTasks is made holding the
\* exclusive lock, every read holding at least the shared lock.
C7_AccessUnderLock ==
  lastAccess.who \in {"bg", "imp", "caller"} =>
    /\ lastAccess.kind = "write" => lastAccess.held = "W"
    /\ lastAccess.kind = "read" => lastAccess.held \in {"R", "W"}

\* Some list of the snapshot has tasks, so nested backing arrays exist.
HasNested(v) == \E i \in 1..Len(v.elems) : GoLen(v.elems[i].Tasks) > 0

SharesStorage(r, c) ==
  \/ r.top # NoArray /\ r.top = c.top
  \/ r.sub # NoArray /\ r.sub = c.sub /\ HasNested(r.val) /\ HasNested(c.val)

\* The values handed out: returned by ImportTasks, sent to the UI model, held by it.
HandedOut ==
  (IF caller.pc = "idle" /\ ~caller.err THEN {caller.ret} ELSE {})
    \cup {updateChan[i] : i \in 1..Len(updateChan)} \cup {mTasks, mCompletedTasks}

\* C8: no value handed out by a cache read or passed to the observer shares a
\* backing array with the cache's own tree.
C8_ReadsAreCopies == \A r \in HandedOut : ~SharesStorage(r, cacheTasks)

\* C9: when Tasks.List fails for some lists, the fetch still returns, without an
\* error, a candidate holding exactly the lists whose call succeeded, in the
\* order Tasklists.List gave them; an error comes only from Tasklists.List.
C9_PartialFetchContinues ==
  /\ bg.pc \in {"fetched", "locked", "reconciled"} =>
       /\ ~bg.err
       /\ ListIdsOf(bg.tasks.val.elems) = SelectSeq(bg.listed, LAMBDA id : id \notin bg.failed)
  /\ bg.err => bg.failed = {}

\* Tasks.List failed for L1 only and the candidate holds L2 with its task.
C9_Witness ==
  /\ bg.pc = "fetched"
  /\ bg.failed = {"L1"}
  /\ ListIdsOf(bg.tasks.val.elems) = <<"L2">>
  /\ bg.tasks.val.elems[1].Tasks.elems[1].Id = "D"

\* C10: the step in which a poll's fetch fails changes neither the cache, nor the
\* files, nor the channels, nor the lock, and leaves the loop waiting for the
\* next tick.
C10_FailedPollNoEffect ==
  [][(bg.pc = "fetching" /\ bg'.err) =>
       /\ bg'.pc = "idle"
       /\ UNCHANGED <<cacheTasks, cacheLastSync, cacheFile, tempFile, updateChan,
                      refreshChan, exportQueue, mu>>]_vars

\* A poll failed at Tasklists.List: the loop is idle again and the cache still
\* holds the snapshot loaded from the cache file.
C10_Witness ==
  /\ bg.pc = "idle" /\ bg.err /\ ticks = 1
  /\ cacheTasks.val = EarlierSnapshot
  /\ cacheFile = JsonFile(MarshalTasks(EarlierSnapshot))
  /\ updateChan = <<>>

\* ------------------------------------------------------------ tasks.json
\* os.WriteFile on tasks.json itself opens it with O_TRUNC: a write that fails
\* after the open leaves the file cut short.
PartialFile == [state |-> "partial", data |-> <<>>]

SaveTasksOutcomes == {"ok", "dirFail", "openFail", "writeFail"}

\* SaveTasks (storage.go) under each outcome of the file system: tasks.json afterwards.
SaveTasks(tasks, outcome, file) ==
  IF outcome \in {"dirFail", "openFail"} THEN file
  ELSE IF outcome = "writeFail" THEN PartialFile
  ELSE JsonFile(MarshalTasks(tasks))

\* ------------------------------------------------------------ main (Google mode)
\* The intro task of main, lines 57-65.
IntroTask(t) ==
  NewTask("1", "Welcome to Godo!", "This is your first task.", "", FALSE, 0, 0, "", <<>>,
          "", t, t, NilSlice)

\* main lines 40-44: GoogleTasksClientVar.LoadTasks(), that is fetchGoogleTasks;
\* on an error main prints it and calls os.Exit(1), which ends every goroutine.
MainLoadTasks ==
  /\ mainPc = "running"
  /\ uiPc = "none"
  /\ \E listsOk \in BOOLEAN, failed \in SUBSET {remote[i].Id : i \in 1..Len(remote)} :
       /\ listsOk \/ failed = {}
       /\ LET r == fetchGoogleTasks(remote, listsOk, failed, now)
          IN  IF r.err
              THEN /\ mainPc' = "exited"
                   /\ bg' = Goroutine("off")
                   /\ imp' = Goroutine("off")
                   /\ mu' = Unlocked
                   /\ updateChan' = <<>>
                   /\ refreshChan' = 0
                   /\ exportQueue' = <<>>
                   /\ UNCHANGED <<now, uiPc, startTasks>>
              ELSE /\ startTasks' = Ref(r.tasks, <<"fetch", now>>, <<"fetch", now>>)
                   /\ uiPc' = "loaded"
                   /\ now' = now + 1
                   /\ UNCHANGED <<mainPc, bg, imp, mu, updateChan, refreshChan, exportQueue>>
  /\ UNCHANGED <<remote, cacheTasks, cacheLastSync, lastAccess, cacheFile, tempFile, caller,
                 imports, ticks, currentModel, mTasks, mCompletedTasks, tbVars,
                 pTasks, pCompletedTasks, cursor, currentPath, currentListID, edits,
                 syncQueue, wireLog, fg, tasksFile, st, pubs>>

\* main lines 54-72 and NewModel: with no task the intro task is made and saved;
\* NewModel asks for the task lists to pick currentListID, splits the tasks and
\* starts handleUpdates on its own m; the program gets a copy of that m.
RunTaskUI ==
  /\ mainPc = "running"
  /\ uiPc = "loaded"
  /\ \E outcome \in SaveTasksOutcomes, listsOk \in BOOLEAN :
       LET empty == GoLen(startTasks.val) = 0
           tasks == IF empty
                    THEN Ref(MakeSlice(<<IntroTask(now)>>), <<"intro", 0>>, NoArray)
                    ELSE startTasks
       IN  /\ ~empty => outcome = "ok"
           /\ tasksFile' = IF empty THEN SaveTasks(tasks.val, outcome, tasksFile) ELSE tasksFile
           /\ now' = IF empty THEN now + 1 ELSE now
           /\ pTasks' = splitTasks(tasks.val)[1]
           /\ pCompletedTasks' = splitTasks(tasks.val)[2]
           /\ mTasks' = Ref(splitTasks(tasks.val)[1], <<"active", 0>>, tasks.sub)
           /\ mCompletedTasks' = Ref(splitTasks(tasks.val)[2], <<"completed", 0>>, tasks.sub)
           /\ currentListID' = IF listsOk /\ Len(remote) > 0 THEN remote[1].Id ELSE ""
  /\ uiPc' = "ui"
  /\ UNCHANGED <<mainPc, remote, cacheTasks, cacheLastSync, mu, lastAccess, cacheFile,
                 tempFile, bg, imp, caller, imports, ticks, currentModel, updateChan,
                 refreshChan, exportQueue, tbVars, startTasks, cursor, currentPath, edits,
                 syncQueue, wireLog, fg, st, pubs>>

\* SetCurrentModel(&m) with the m of NewModel, once NewModel has run.
SetCurrentModelOfNewModel == uiPc = "ui" /\ SetCurrentModel

\* The program as main runs it in Google mode, without key presses.
MainNext ==
  \/ InitializeGoogleTasks
  \/ MainLoadTasks
  \/ RunTaskUI
  \/ RemoteRetitle
  \/ SetCurrentModelOfNewModel
  \/ BgTick
  \/ BgFetch
  \/ BgLock
  \/ BgReconcile
  \/ BgUnlock
  \/ handleUpdates
  \/ waitForRefresh
  \/ ExportToGoogle

SpecMain == Init /\ [][MainNext]_vars

\* The goroutine of handleUpdates and the program's refresh command are scheduled
\* whenever they can run.
FairSpecMain == SpecMain /\ WF_vars(handleUpdates) /\ WF_vars(waitForRefresh)

\* C11: no failure of the remote service ends the process, at the startup fetch
\* or during polling.
C11_RemoteFailureNotFatal == mainPc # "exited"

\* ------------------------------------------------------------ observer channel
\* Calls of notifyUIOfChanges in one run of the publisher exercise.
MaxPublishes == 12

\* A faulty variant of SelectSend, for sensitivity runs: a plain send, which waits for room.
BlockingSend(chan, cap, x) == [proceeds |-> Len(chan) < cap, chan |-> Append(chan, x)]

\* select { case chan <- x: ...  default: ... } on a channel of capacity cap:
\* whether the statement completes, and the channel afterwards.
SelectSend(chan, cap, x) ==
  [proceeds |-> TRUE, chan |-> IF Len(chan) < cap THEN Append(chan, x) ELSE chan]

\* notifyUIOfChanges(tasks) with a registered model, called by any publisher:
\* currentModel.UpdateTasks(tasks), which starts ExportToGoogle when it has sent.
notifyUIOfChanges ==
  /\ mainPc = "running"
  /\ currentModel
  /\ pubs < MaxPublishes
  /\ LET tasks == Ref(EarlierSnapshot, <<"fetch", 0>>, <<"fetch", 0>>)
         r == SelectSend(updateChan, UpdateChanCap, tasks)
     IN  /\ r.proceeds
         /\ updateChan' = r.chan
         /\ exportQueue' = IF UpdateTasksSends(updateChan)
                           THEN Append(exportQueue, tasks.val) ELSE exportQueue
  /\ pubs' = pubs + 1
  /\ UNCHANGED <<mainPc, remote, now, cacheTasks, cacheLastSync, mu, lastAccess, cacheFile,
                 tempFile, bg, imp, caller, imports, ticks, currentModel, refreshChan,
                 mTasks, mCompletedTasks, tbVars, uiPc, startTasks, pTasks, pCompletedTasks,
                 cursor, currentPath, currentListID, edits, syncQueue, wireLog, fg,
                 tasksFile, st>>

\* A publisher and the two consumers of the model's channels.
ChanNext ==
  \/ InitializeGoogleTasks
  \/ SetCurrentModel
  \/ notifyUIOfChanges
  \/ handleUpdates
  \/ waitForRefresh

SpecChan == Init /\ [][ChanNext]_vars

\* C12: a publisher that is to publish can always take its step, and so can
\* handleUpdates when it has a snapshot to handle; publishing on a full update
\* channel leaves the channel as it is and returns, and handleUpdates with the
\* refresh slot taken leaves the slot as it is and goes on with the next snapshot.
C12_PublishNeverBlocks ==
  /\ []((mainPc = "running" /\ currentModel /\ pubs < MaxPublishes) => ENABLED notifyUIOfChanges)
  /\ [](updateChan # <<>> => ENABLED handleUpdates)
  /\ [][(pubs' = pubs + 1 /\ Len(updateChan) = UpdateChanCap) => updateChan' = updateChan]_vars
  /\ [][(Len(updateChan') < Len(updateChan) /\ refreshChan = RefreshChanCap) =>
          (refreshChan' = refreshChan /\ updateChan' = Tail(updateChan))]_vars

\* The update channel is full, a publish has been dropped, and the refresh slot
\* is taken while snapshots are still waiting to be handled.
C12_Witness ==
  /\ Len(updateChan) = UpdateChanCap
  /\ pubs > Len(exportQueue)
  /\ refreshChan = RefreshChanCap
  /\ mTasks.val = splitTasks(EarlierSnapshot)[1]

\* C13: once a notification has been delivered to the update channel of a running
\* UI, the lists of the model the program renders come to equal the active /
\* completed split of the delivered snapshot (mTasks and mCompletedTasks hold that
\* split once handleUpdates has taken the snapshot).
C13_RenderedModelFollows ==
  (uiPc = "ui" /\ updateChan # <<>>) ~>
    (updateChan = <<>> /\ pTasks = mTasks.val /\ pCompletedTasks = mCompletedTasks.val)

\* ------------------------------------------------------------ local persistence
\* SaveToLocal (main.go): the same steps as SaveTasks on ~/.local/share/godo/tasks.json.
SaveToLocal(tasks, outcome, file) ==
  IF outcome \in {"dirFail", "openFail"} THEN file
  ELSE IF outcome = "writeFail" THEN PartialFile
  ELSE JsonFile(MarshalTasks(tasks))

\* A faulty variant of LoadTasks, for sensitivity runs: a missing file is an error.
LoadTasksMissingIsError(file) ==
  IF file.state = "json" THEN [tasks |-> UnmarshalTasks(file.data), err |-> FALSE]
  ELSE [tasks |-> NilSlice, err |-> TRUE]

\* LoadTasks (storage.go): a missing tasks.json gives []Task{} and no error, a
\* file that cannot be read or parsed gives an error.
LoadTasks(file) ==
  IF file.state = "absent" THEN [tasks |-> MakeSlice(<<>>), err |-> FALSE]
  ELSE IF file.state = "json" THEN [tasks |-> UnmarshalTasks(file.data), err |-> FALSE]
  ELSE [tasks |-> NilSlice, err |-> TRUE]

\* ImportFromLocal (main.go): the same on ~/.local/share/godo/tasks.json.
ImportFromLocal(file) ==
  IF file.state = "absent" THEN [tasks |-> MakeSlice(<<>>), err |-> FALSE]
  ELSE IF file.state = "json" THEN [tasks |-> UnmarshalTasks(file.data), err |-> FALSE]
  ELSE [tasks |-> NilSlice, err |-> TRUE]

\* loadCachedTasks: whether it returns an error.
loadCachedTasksFails(file) == file.state \notin {"absent", "json"}

\* Snapshots given to save: nil, empty, the fetched snapshot, and top-level tasks
\* with and without a due date, completed or not, with nil, empty and non-empty Tasks.
StoreLeaf == NewTask("c", "leaf", "", "needsAction", FALSE, 0, 0, "p", Pos0, "tasks#task", 0, 0, NilSlice)

StoreTasks ==
  {NewTask("p", "task", "n", IF completed THEN "completed" ELSE "needsAction", completed,
           due, IF completed THEN 4 ELSE 0, "", Pos1, "tasks#task", 3, 2, children) :
     due \in {0, 5}, completed \in BOOLEAN,
     children \in {NilSlice, MakeSlice(<<>>), MakeSlice(<<StoreLeaf>>)}}

StoreSnapshots ==
  {NilSlice, MakeSlice(<<>>), EarlierSnapshot}
    \cup {MakeSlice(<<t>>) : t \in StoreTasks}
    \cup {MakeSlice(<<t, IntroTask(1)>>) : t \in StoreTasks}

\* The three save / load pairs.
StorePaths == {"cache", "tasks", "local"}

\* The canonical file of the pair being exercised.
Canonical == IF st.path = "cache" THEN cacheFile ELSE tasksFile

\* A process about to save one snapshot over a canonical file that is missing,
\* unreadable, or holds an earlier snapshot.
StoreInit ==
  /\ SyncIdle
  /\ FgIdle
  /\ tbTasks = <<>>
  /\ tbResult = NilSlice
  /\ tbPc = "off"
  /\ tempFile = AbsentFile
  /\ \E path \in StorePaths, snapshot \in StoreSnapshots,
        file \in {AbsentFile, CorruptFile, JsonFile(MarshalTasks(EarlierSnapshot))} :
       /\ cacheFile = IF path = "cache" THEN file ELSE AbsentFile
       /\ tasksFile = IF path = "cache" THEN AbsentFile ELSE file
       /\ st = [StOff EXCEPT !.pc = "ready", !.path = path, !.snapshot = snapshot,
                             !.prev = file]

\* The first half of a save. saveCachedTasks: MkdirAll, MarshalIndent and
\* os.WriteFile of the temporary file. SaveTasks / SaveToLocal: MkdirAll,
\* MarshalIndent and the open of tasks.json itself, which truncates it.
StoreSaveBegin ==
  /\ st.pc = "ready"
  /\ \E outcome \in {"dirFail", "openFail", "writeFail", "ok"} :
       IF st.path = "cache"
       THEN /\ outcome # "openFail"
            /\ IF outcome = "ok"
               THEN /\ tempFile' = JsonFile(MarshalTasks(st.snapshot))
                    /\ cacheFile' = cacheFile
                    /\ st' = [st EXCEPT !.pc = "tempWritten"]
               ELSE /\ cacheFile' = saveCachedTasks(st.snapshot, outcome, cacheFile, tempFile)[1]
                    /\ tempFile' = saveCachedTasks(st.snapshot, outcome, cacheFile, tempFile)[2]
                    /\ st' = [st EXCEPT !.pc = "saveFailed"]
            /\ UNCHANGED tasksFile
       ELSE /\ outcome # "writeFail"
            /\ IF outcome = "ok"
               THEN /\ tasksFile' = PartialFile
                    /\ st' = [st EXCEPT !.pc = "writing"]
               ELSE /\ tasksFile' = IF st.path = "tasks"
                                    THEN SaveTasks(st.snapshot, outcome, tasksFile)
                                    ELSE SaveToLocal(st.snapshot, outcome, tasksFile)
                    /\ st' = [st EXCEPT !.pc = "saveFailed"]
            /\ UNCHANGED <<cacheFile, tempFile>>
  /\ UNCHANGED <<tbVars, mainPc, remote, now, cacheTasks, cacheLastSync, mu, lastAccess, bg,
                 imp, caller, imports, ticks, currentModel, updateChan, refreshChan, mTasks,
                 mCompletedTasks, exportQueue, uiPc, startTasks, pTasks, pCompletedTasks,
                 cursor, currentPath, currentListID, edits, syncQueue, wireLog, fg, pubs>>

\* The second half of a save. saveCachedTasks: os.Rename of the temporary file
\* over the cache file. SaveTasks / SaveToLocal: the write of the data.
StoreSaveEnd ==
  /\ st.pc \in {"tempWritten", "writing"}
  /\ \E ok \in BOOLEAN :
       /\ IF st.path = "cache"
          THEN /\ cacheFile' = saveCachedTasks(st.snapshot, IF ok THEN "ok" ELSE "renameFail",
                                               cacheFile, tempFile)[1]
               /\ tempFile' = saveCachedTasks(st.snapshot, IF ok THEN "ok" ELSE "renameFail",
                                              cacheFile, tempFile)[2]
               /\ UNCHANGED tasksFile
          ELSE /\ tasksFile' = IF st.path = "tasks"
                               THEN SaveTasks(st.snapshot, IF ok THEN "ok" ELSE "writeFail",
                                              tasksFile)
                               ELSE SaveToLocal(st.snapshot, IF ok THEN "ok" ELSE "writeFail",
                                                tasksFile)
               /\ UNCHANGED <<cacheFile, tempFile>>
       /\ st' = [st EXCEPT !.pc = IF ok THEN "saved" ELSE "saveFailed"]
  /\ UNCHANGED <<tbVars, mainPc, remote, now, cacheTasks, cacheLastSync, mu, lastAccess, bg,
                 imp, caller, imports, ticks, currentModel, updateChan, refreshChan, mTasks,
                 mCompletedTasks, exportQueue, uiPc, startTasks, pTasks, pCompletedTasks,
                 cursor, currentPath, currentListID, edits, syncQueue, wireLog, fg, pubs>>

\* A load of the canonical file: by the same process after its save, or by the
\* next process when this one stopped at any point of the save. The cache file
\* is loaded into a fresh cache, as InitializeGoogleTasks does.
StoreLoad ==
  /\ st.pc \in {"ready", "tempWritten", "writing", "saved", "saveFailed"}
  /\ LET r == IF st.path = "tasks" THEN LoadTasks(tasksFile)
              ELSE IF st.path = "local" THEN ImportFromLocal(tasksFile)
              ELSE [tasks |-> loadCachedTasks(cacheFile,
                                 Ref(MakeSlice(<<>>), <<"make257", 0>>, <<"make257", 0>>), 0).val,
                    err |-> loadCachedTasksFails(cacheFile)]
     IN  st' = [st EXCEPT !.pc = "loaded", !.from = st.pc, !.file = Canonical,
                          !.loaded = r.tasks, !.err = r.err]
  /\ UNCHANGED <<tbVars, syncVars, uiPc, startTasks, pTasks, pCompletedTasks, cursor,
                 currentPath, currentListID, edits, syncQueue, wireLog, fg, tasksFile, pubs>>

StoreNext ==
  \/ StoreSaveBegin
  \/ StoreSaveEnd
  \/ StoreLoad

SpecStore == StoreInit /\ [][StoreNext]_vars

\* C14: at every point of a save, for the cache file and for tasks.json, the
\* canonical file holds the complete previous content or the complete new content.
C14_SaveIsAtomic ==
  st.pc \in {"tempWritten", "writing", "saved", "saveFailed"} =>
    Canonical \in {st.prev, JsonFile(MarshalTasks(st.snapshot))}

MaxEdits == 2

\* The ids the remote service gives to created tasks, in order of creation.
NewIds == <<"N1", "N2", "N3", "N4">>

\* The model value Update works on.
TheModel ==
  [tasks |-> pTasks, completedTasks |-> pCompletedTasks, cursor |-> cursor,
   currentPath |-> currentPath]

\* s[i] = t on a slice, i counted from 0.
SetAt(s, i, t) == [s EXCEPT !.elems[i + 1] = t]

ElemAt(s, i) == s.elems[i + 1]

\* A faulty variant of removeTask, for sensitivity runs: the task is replaced by
\* the value given instead of being taken out.
removeTaskMarks(tasks, task) ==
  LET hits == {i \in 1..Len(tasks.elems) : tasks.elems[i].Id = task.Id}
  IN  IF hits = {} THEN tasks
      ELSE [tasks EXCEPT !.elems[CHOOSE i \in hits : \A j \in hits : i <= j] = task]

\* A faulty variant of removeTask, for sensitivity runs: the last task is taken out.
removeTaskLast(tasks, task) ==
  IF tasks.elems = <<>> THEN tasks
  ELSE [isNil |-> FALSE, elems |-> SubSeq(tasks.elems, 1, Len(tasks.elems) - 1)]

\* removeTask: the first task with the id of task is taken out.
removeTask(tasks, task) ==
  LET hits == {i \in 1..Len(tasks.elems) : tasks.elems[i].Id = task.Id}
  IN  IF hits = {} THEN tasks
      ELSE LET i == CHOOSE i \in hits : \A j \in hits : i <= j
           IN  [isNil |-> FALSE,
                elems |-> SubSeq(tasks.elems, 1, i - 1)
                            \o SubSeq(tasks.elems, i + 1, Len(tasks.elems))]

\* getCurrentTasks: <<active, completed>>; at the top level the model's own slices.
getCurrentTasks(m) ==
  IF m.currentPath = <<>> THEN <<m.tasks, m.completedTasks>>
  ELSE splitTasks(m.currentPath[Len(m.currentPath)].Tasks)

\* The guard of the keys r, o and t: the cursor is on a task.
CursorOnTask(m) ==
  LET la == GoLen(getCurrentTasks(m)[1])
      lc == GoLen(getCurrentTasks(m)[2])
  IN  (m.cursor < la /\ la > 0) \/ (m.cursor >= la /\ m.cursor - la < lc)

\* The Tasks slice of the entered list shares its backing array with the list
\* of that id in m.tasks: what is written through one is seen through the other.
WriteThrough(tasks, id, newTasks) ==
  [tasks EXCEPT !.elems = [i \in 1..Len(tasks.elems) |->
                             IF tasks.elems[i].Id = id
                             THEN [tasks.elems[i] EXCEPT !.Tasks = newTasks]
                             ELSE tasks.elems[i]]]

\* What a handler leaves: the model, the task given to syncToGoogle (if any),
\* whether SaveTasks(m.tasks) is called, whether the handler panics.
Handled(m, sync, save) == [m |-> m, sync |-> sync, save |-> save, panic |-> FALSE]

Panics(m) == [m |-> m, sync |-> <<>>, save |-> FALSE, panic |-> TRUE]

\* "rename" (lines 216-247).
Renamed(task, inCompleted, title, t) ==
  [task EXCEPT !.Title = title, !.Updated = t,
               !.Status = IF @ = "" THEN (IF inCompleted THEN "completed" ELSE "needsAction")
                          ELSE @]

\* "notes" (lines 175-215).
Noted(task, notes, t) == [task EXCEPT !.Notes = notes, !.Updated = t]

\* "due_date" (lines 278-301).
Dated(task, due, t) == [task EXCEPT !.DueDate = due, !.Updated = t]

\* The task after the edit e = [action, value, t] of the input line.
Edited(task, inCompleted, e) ==
  CASE e.action = "rename" -> Renamed(task, inCompleted, e.value, e.t)
    [] e.action = "notes" -> Noted(task, e.value, e.t)
    [] e.action = "due_date" -> Dated(task, e.value, e.t)

\* The edit of one field of the task under the cursor (lines 175-247 and
\* 278-301); saveAlways tells whether SaveTasks is called when no task is edited.
EditCurrent(m, e, saveAlways) ==
  LET la == GoLen(getCurrentTasks(m)[1])
      lc == GoLen(getCurrentTasks(m)[2])
  IN  IF m.currentPath = <<>>
      THEN IF m.cursor < la
           THEN LET t1 == Edited(ElemAt(m.tasks, m.cursor), FALSE, e)
                IN  Handled([m EXCEPT !.tasks = SetAt(m.tasks, m.cursor, t1)], <<t1>>, TRUE)
           ELSE IF m.cursor - la < lc
           THEN LET t1 == Edited(ElemAt(m.completedTasks, m.cursor - la), TRUE, e)
                IN  Handled([m EXCEPT !.completedTasks = SetAt(m.completedTasks, m.cursor - la, t1)],
                            <<t1>>, TRUE)
           ELSE Panics(m)
      ELSE LET parent == m.currentPath[Len(m.currentPath)]
           IN  IF m.cursor < GoLen(parent.Tasks)
               THEN LET t1 == Edited(ElemAt(parent.Tasks, m.cursor), FALSE, e)
                        newTasks == SetAt(parent.Tasks, m.cursor, t1)
                    IN  Handled([m EXCEPT !.currentPath[Len(m.currentPath)].Tasks = newTasks,
                                          !.tasks = WriteThrough(m.tasks, parent.Id, newTasks)],
                                <<t1>>, TRUE)
               ELSE Handled(m, <<>>, saveAlways)

\* The index in m.tasks of the entered list (lines 650-663 and 416-429 for a
\* path of one element), 0 when it is not there.
TaskPtr(m) ==
  LET hits == {j \in 1..Len(m.tasks.elems) : m.tasks.elems[j].Id = m.currentPath[1].Id}
  IN  IF hits = {} THEN 0 ELSE CHOOSE j \in hits : \A k \in hits : j <= k

\* The key " " (lines 624-692).
ToggleResult(m) ==
  LET la == GoLen(getCurrentTasks(m)[1])
      lc == GoLen(getCurrentTasks(m)[2])
      done(task) == [task EXCEPT !.Completed = TRUE, !.Status = "completed"]
      undone(task) == [task EXCEPT !.Completed = FALSE, !.Status = "needsAction"]
  IN  IF m.currentPath = <<>>
      THEN IF m.cursor < la
           THEN LET task == done(ElemAt(m.tasks, m.cursor))
                IN  Handled([m EXCEPT !.completedTasks = GoAppend(m.completedTasks, task),
                                      !.tasks = removeTask(m.tasks, task)], <<task>>, TRUE)
           ELSE IF m.cursor - la < lc
           THEN LET task == undone(ElemAt(m.completedTasks, m.cursor - la))
                IN  Handled([m EXCEPT !.tasks = GoAppend(m.tasks, task),
                                      !.completedTasks = removeTask(m.completedTasks, task)],
                            <<task>>, TRUE)
           ELSE Panics(m)
      ELSE IF TaskPtr(m) = 0 THEN Handled(m, <<>>, FALSE)
      ELSE IF m.cursor >= la /\ m.cursor - la >= lc THEN Panics(m)
      ELSE LET task == IF m.cursor < la THEN done(ElemAt(getCurrentTasks(m)[1], m.cursor))
                       ELSE undone(ElemAt(getCurrentTasks(m)[2], m.cursor - la))
               newTasks == GoAppend(removeTask(m.tasks.elems[TaskPtr(m)].Tasks, task), task)
               tasks1 == [m.tasks EXCEPT !.elems[TaskPtr(m)].Tasks = newTasks]
           IN  Handled([m EXCEPT !.tasks = tasks1,
                                 !.currentPath[Len(m.currentPath)] = tasks1.elems[TaskPtr(m)]],
                       <<task>>, TRUE)

\* A delete that leaves the cursor where it was.
cursorUnmoved(c, la, lc) == c

\* The cursor after a delete (lines 391-396, 405-410, 439-444, 452-457): from the
\* last active row, or the last row of the view, it goes to the length of that
\* part minus two, and to 0 when that is negative.
cursorAfterDelete(c, la, lc) ==
  LET atLeast0(n) == IF n < 0 THEN 0 ELSE n
  IN  IF c < la
      THEN (IF c >= la - 1 THEN atLeast0(la - 2) ELSE c)
      ELSE (IF c >= la + lc - 1 THEN atLeast0(la + lc - 2) ELSE c)

\* "delete" with the text of the input line (lines 375-469): anything but yes
\* closes the input line and does nothing else, and so does yes in an empty view
\* (lines 379-381).
DeleteResult(m, input) ==
  LET la == GoLen(getCurrentTasks(m)[1])
      lc == GoLen(getCurrentTasks(m)[2])
      deleted(task) == [task EXCEPT !.Status = "deleted"]
      cursorAfter == cursorAfterDelete(m.cursor, la, lc)
  IN  IF input # "yes" \/ (la = 0 /\ lc = 0) THEN Handled(m, <<>>, FALSE)
      ELSE IF m.currentPath = <<>>
      THEN IF m.cursor < la
           THEN LET task == deleted(ElemAt(m.tasks, m.cursor))
                IN  Handled([m EXCEPT !.tasks = removeTask(m.tasks, task),
                                      !.cursor = cursorAfter], <<task>>, TRUE)
           ELSE IF m.cursor < la + lc
           THEN LET task == deleted(ElemAt(m.completedTasks, m.cursor - la))
                IN  Handled([m EXCEPT !.completedTasks = removeTask(m.completedTasks, task),
                                      !.cursor = cursorAfter], <<task>>, TRUE)
           ELSE Handled(m, <<>>, FALSE)
      ELSE IF TaskPtr(m) = 0 THEN Handled(m, <<>>, TRUE)
      ELSE IF m.cursor >= la /\ m.cursor - la >= lc THEN Panics(m)
      ELSE LET task == IF m.cursor < la THEN deleted(ElemAt(getCurrentTasks(m)[1], m.cursor))
                       ELSE deleted(ElemAt(getCurrentTasks(m)[2], m.cursor - la))
               newTasks == removeTask(m.tasks.elems[TaskPtr(m)].Tasks, task)
               tasks1 == [m.tasks EXCEPT !.elems[TaskPtr(m)].Tasks = newTasks]
           IN  Handled([m EXCEPT !.tasks = tasks1, !.cursor = cursorAfter,
                                 !.currentPath[Len(m.currentPath)] = tasks1.elems[TaskPtr(m)]],
                       <<task>>, TRUE)

\* ------------------------------------------------------------ remote calls of the UI
\* CreateTask (main.go 120-174) with a list id: the payload carries a Due only
\* when the due date is set; Tasks.Insert needs the list and, for a subtask, the
\* parent in it.
CreateTaskPayload(task) ==
  [op |-> "createTask", due |-> IF task.DueDate = 0 THEN EmptyStr ELSE FormatRFC3339(task.DueDate)]

InsertAccepted(rem, listID, task) ==
  \E i \in 1..Len(rem) :
    /\ rem[i].Id = listID
    /\ task.Parent = "" \/ \E k \in 1..Len(rem[i].Items) : rem[i].Items[k].Id = task.Parent

\* The service after Tasks.Insert: the task gets its id and its position.
ApplyInsert(rem, listID, task, id, position) ==
  [i \in 1..Len(rem) |->
     IF rem[i].Id = listID
     THEN [rem[i] EXCEPT !.Items =
             Append(@, [WireTask(id, task.Title, task.Status, task.Parent, position)
                          EXCEPT !.Notes = task.Notes,
                                 !.Due = CreateTaskPayload(task).due])]
     ELSE rem[i]]

\* A faulty variant of CreatedTask, for sensitivity runs: the answer of the
\* service is not copied into the task.
CreatedTaskKeepsLocal(task, id, position) == task

\* The task CreateTask returns (lines 165-173).
CreatedTask(task, id, position) ==
  [task EXCEPT !.Id = id, !.Kind = "tasks#task", !.Position = position]

\* UpdateTask (main.go 177-196): the v1.Task it sends.
UpdateTaskWrite(task) ==
  [op |-> "updateTask", id |-> task.Id, title |-> task.Title, notes |-> task.Notes,
   status |-> task.Status, due |-> FormatRFC3339(task.DueDate)]

\* DeleteTask (main.go 199-207): Tasks.Delete on the first list.
DeleteAccepted(rem, id) ==
  /\ Len(rem) > 0
  /\ \E k \in 1..Len(rem[1].Items) : rem[1].Items[k].Id = id

\* The service after Tasks.Delete: the task and its subtasks are gone.
ApplyDelete(rem, id) ==
  LET RECURSIVE keep(_)
      keep(items) ==
        IF items = <<>> THEN <<>>
        ELSE IF Head(items).Id = id \/ Head(items).Parent = id THEN keep(Tail(items))
        ELSE <<Head(items)>> \o keep(Tail(items))
  IN  [rem EXCEPT ![1].Items = keep(@)]

\* ------------------------------------------------------------ Update actions
\* What the goroutine of syncToGoogle can read as m.tasks. It reads the m of the
\* Update call that started it, unsynchronised: a handler that assigns m.tasks
\* after the call (toggle, delete) races with it, and removeTask shifts the
\* elements of the backing array in place, so the old header can also be read
\* over the shifted array.
RacyViews(before, after, racy) ==
  IF ~racy THEN {after}
  ELSE {before, after}
         \cup (IF GoLen(after) + 1 = GoLen(before)
               THEN {MakeSlice(after.elems \o <<before.elems[Len(before.elems)]>>)}
               ELSE {})

\* The end of a key handler: the model Bubble Tea gets back, the goroutine of
\* syncToGoogle, SaveTasks(m.tasks). A panic of the handler ends the process.
Handle(kind, r, racy) ==
  IF r.panic
  THEN /\ mainPc' = "panicked"
       /\ bg' = Goroutine("off")
       /\ syncQueue' = <<>>
       /\ exportQueue' = <<>>
       /\ mu' = Unlocked
       /\ UNCHANGED <<remote, now, cacheTasks, cacheLastSync, lastAccess, cacheFile, tempFile,
                      imp, caller, imports, ticks, currentModel, updateChan, refreshChan, mTasks,
                      mCompletedTasks, tbVars, uiPc, startTasks, pTasks, pCompletedTasks,
                      cursor, currentPath, currentListID, edits, wireLog, fg, tasksFile, st,
                      pubs>>
  ELSE /\ pTasks' = r.m.tasks
       /\ pCompletedTasks' = r.m.completedTasks
       /\ cursor' = r.m.cursor
       /\ currentPath' = r.m.currentPath
       /\ \E outcome \in SaveTasksOutcomes, view \in RacyViews(pTasks, r.m.tasks, racy) :
            /\ ~r.save => outcome = "ok"
            /\ r.sync = <<>> => view = r.m.tasks
            /\ tasksFile' = IF r.save THEN SaveTasks(r.m.tasks, outcome, tasksFile) ELSE tasksFile
            /\ syncQueue' = IF r.sync = <<>> THEN syncQueue
                            ELSE Append(syncQueue,
                                        [task |-> r.sync[1], tasks |-> view, edit |-> edits + 1])
       /\ fg' = [kind |-> kind, edit |-> edits + 1,
                 remote |-> IF r.sync = <<>> THEN "none" ELSE "pending",
                 tasks |-> pTasks, completedTasks |-> pCompletedTasks, file |-> tasksFile,
                 saved |-> IF r.save THEN r.m.tasks ELSE NilSlice]
       /\ edits' = edits + 1
       /\ now' = now + 1
       /\ UNCHANGED <<mainPc, remote, cacheTasks, cacheLastSync, mu, lastAccess, cacheFile,
                      tempFile, bg, imp, caller, imports, ticks, currentModel, updateChan,
                      refreshChan, mTasks, mCompletedTasks, exportQueue, tbVars, uiPc,
                      startTasks, currentListID, wireLog, st, pubs>>

\* The keys are read while the program runs; a run is followed up to its last
\* mutation (edits < MaxEdits in every key handler).
UiRunning == mainPc = "running" /\ uiPc = "ui"

\* r, a title, enter.
UpdateRename ==
  /\ UiRunning /\ edits < MaxEdits
  /\ CursorOnTask(TheModel)
  /\ \E title \in {"t2"} :
       Handle("rename",
              EditCurrent(TheModel, [action |-> "rename", value |-> title, t |-> now], TRUE),
              FALSE)

\* o, a note, enter.
UpdateNotes ==
  /\ UiRunning /\ edits < MaxEdits
  /\ CursorOnTask(TheModel)
  /\ \E notes \in {"n1"} :
       Handle("notes",
              EditCurrent(TheModel, [action |-> "notes", value |-> notes, t |-> now], TRUE),
              FALSE)

\* t, a date that parses, enter.
UpdateDueDate ==
  /\ UiRunning /\ edits < MaxEdits
  /\ CursorOnTask(TheModel)
  /\ \E due \in {2} :
       Handle("due_date",
              EditCurrent(TheModel, [action |-> "due_date", value |-> due, t |-> now], FALSE),
              FALSE)

\* The key " ".
UpdateToggle ==
  /\ UiRunning /\ edits < MaxEdits
  /\ Handle("toggle", ToggleResult(TheModel), TRUE)

\* d, a text, enter.
UpdateDelete ==
  /\ UiRunning /\ edits < MaxEdits
  /\ GoLen(getCurrentTasks(TheModel)[1]) + GoLen(getCurrentTasks(TheModel)[2]) > 0
  /\ \E input \in {"yes", "no"} :
       Handle(IF input = "yes" THEN "delete" ELSE "delete_unconfirmed",
              DeleteResult(TheModel, input), TRUE)

\* n, a title, enter (lines 302-374): the task is created remotely first and
\* added to the tree, and saved, only when that succeeded.
UpdateNewTask ==
  /\ UiRunning /\ edits < MaxEdits
  /\ \E listsOk \in BOOLEAN, insertOk \in BOOLEAN, outcome \in SaveTasksOutcomes :
       LET listID == IF currentListID # "" THEN currentListID
                     ELSE IF listsOk /\ Len(remote) > 0 THEN remote[1].Id ELSE ""
           inPath == currentPath # <<>>
           parent == IF inPath THEN currentPath[Len(currentPath)] ELSE IntroTask(0)
           newTask == NewTask("", "new", "", "needsAction", FALSE, 0, 0,
                              IF inPath /\ parent.Kind # "tasks#taskList" THEN parent.Id ELSE "",
                              <<>>, "tasks#task", now, now, NilSlice)
           position == <<0, edits + 1>>
           sent == listID # "" /\ insertOk
           created == sent /\ InsertAccepted(remote, listID, newTask)
           createdTask == CreatedTask(newTask, NewIds[edits + 1], position)
           parentTasks == GoAppend(parent.Tasks, createdTask)
           tasks1 == IF inPath THEN WriteThrough(pTasks, parent.Id, parentTasks)
                     ELSE GoAppend(pTasks, createdTask)
       IN  /\ ~created => outcome = "ok"
           /\ currentListID' = listID
           /\ wireLog' = wireLog \cup (IF sent THEN {CreateTaskPayload(newTask)} ELSE {})
           /\ remote' = IF created
                        THEN ApplyInsert(remote, listID, newTask, NewIds[edits + 1], position)
                        ELSE remote
           /\ pTasks' = IF created THEN tasks1 ELSE pTasks
           /\ currentPath' = IF created /\ inPath
                             THEN [currentPath EXCEPT ![Len(currentPath)].Tasks = parentTasks]
                             ELSE currentPath
           /\ cursor' = IF ~created THEN cursor
                        ELSE IF inPath THEN GoLen(parentTasks) - 1 ELSE GoLen(tasks1) - 1
           /\ tasksFile' = IF created THEN SaveTasks(tasks1, outcome, tasksFile) ELSE tasksFile
           /\ fg' = IF created
                    THEN [kind |-> "new_task", edit |-> edits + 1, remote |-> "ok",
                          tasks |-> pTasks, completedTasks |-> pCompletedTasks,
                          file |-> tasksFile, saved |-> tasks1]
                    ELSE fg
  /\ edits' = edits + 1
  /\ now' = now + 1
  /\ UNCHANGED <<mainPc, cacheTasks, cacheLastSync, mu, lastAccess, cacheFile, tempFile, bg,
                 imp, caller, imports, ticks, currentModel, updateChan, refreshChan, mTasks,
                 mCompletedTasks, exportQueue, tbVars, uiPc, startTasks, pCompletedTasks,
                 syncQueue, st, pubs>>

\* down, j.
UpdateDown ==
  /\ UiRunning /\ edits < MaxEdits
  /\ cursor < GoLen(getCurrentTasks(TheModel)[1]) + GoLen(getCurrentTasks(TheModel)[2]) - 1
  /\ cursor' = cursor + 1
  /\ UNCHANGED <<tbVars, syncVars, uiPc, startTasks, pTasks, pCompletedTasks, currentPath,
                 currentListID, edits, syncQueue, wireLog, fg, tasksFile, st, pubs>>

\* up, k.
UpdateUp ==
  /\ UiRunning /\ edits < MaxEdits
  /\ cursor > 0
  /\ cursor' = cursor - 1
  /\ UNCHANGED <<tbVars, syncVars, uiPc, startTasks, pTasks, pCompletedTasks, currentPath,
                 currentListID, edits, syncQueue, wireLog, fg, tasksFile, st, pubs>>

\* right, l, enter, from the top level: the active task under the cursor is
\* entered and, being a top-level one, gives currentListID.
UpdateRight ==
  /\ UiRunning /\ edits < MaxEdits
  /\ currentPath = <<>>
  /\ cursor < GoLen(pTasks)
  /\ currentListID' = ElemAt(pTasks, cursor).Id
  /\ currentPath' = <<ElemAt(pTasks, cursor)>>
  /\ cursor' = 0
  /\ UNCHANGED <<tbVars, syncVars, uiPc, startTasks, pTasks, pCompletedTasks, edits,
                 syncQueue, wireLog, fg, tasksFile, st, pubs>>

\* left, h: back to the top level, where currentListID becomes the first list
\* when Tasklists.List answers.
UpdateLeft ==
  /\ UiRunning /\ edits < MaxEdits
  /\ currentPath # <<>>
  /\ currentPath' = SubSeq(currentPath, 1, Len(currentPath) - 1)
  /\ cursor' = 0
  /\ \E listsOk \in BOOLEAN :
       currentListID' = IF Len(currentPath) > 1 THEN currentPath[1].Id
                        ELSE IF listsOk /\ Len(remote) > 0 THEN remote[1].Id
                        ELSE currentListID
  /\ UNCHANGED <<tbVars, syncVars, uiPc, startTasks, pTasks, pCompletedTasks, edits,
                 syncQueue, wireLog, fg, tasksFile, st, pubs>>

\* The goroutine of syncToGoogle (lines 994-1019): the call chosen by the status
\* of the task it was given, then ExportToGoogle(m.tasks). Every error ends in
\* tea.Println; nothing is given back to Update, which has returned by then.
syncToGoogleRun ==
  /\ mainPc = "running"
  /\ \E k \in 1..Len(syncQueue), reachable \in BOOLEAN :
       LET e == syncQueue[k]
           call == IF e.task.Status = "needsAction" /\ e.task.Id = "" THEN "createTask"
                   ELSE IF e.task.Status \in {"needsAction", "completed"} THEN "updateTask"
                   ELSE IF e.task.Status = "deleted" THEN "deleteTask"
                   ELSE "none"
           listID == IF currentListID # "" THEN currentListID
                     ELSE IF Len(remote) > 0 THEN remote[1].Id ELSE ""
           accepted ==
             CASE call = "createTask" -> reachable /\ InsertAccepted(remote, listID, e.task)
               [] call = "updateTask" -> reachable /\ WriteAccepted(remote, UpdateTaskWrite(e.task))
               [] call = "deleteTask" -> reachable /\ DeleteAccepted(remote, e.task.Id)
               [] OTHER -> TRUE
           rem1 ==
             IF ~accepted THEN remote
             ELSE CASE call = "createTask" ->
                         ApplyInsert(remote, listID, e.task, NewIds[MaxEdits + e.edit],
                                     <<0, MaxEdits + e.edit>>)
                    [] call = "updateTask" -> ApplyWrite(remote, UpdateTaskWrite(e.task))
                    [] call = "deleteTask" -> ApplyDelete(remote, e.task.Id)
                    [] OTHER -> remote
           sent ==
             IF ~reachable \/ Len(remote) = 0 THEN {}
             ELSE CASE call = "createTask" -> {CreateTaskPayload(e.task)}
                    [] call = "updateTask" ->
                         {[op |-> "updateTask", due |-> UpdateTaskWrite(e.task).due]}
                    [] OTHER -> {}
           ws == ExportWrites(e.tasks)
       IN  /\ \E n \in 0..Len(ws) :
                /\ ~reachable => n = 0
                /\ remote' = ApplyWrites(rem1, ws, n)
                /\ wireLog' = wireLog \cup sent \cup SentWrites(rem1, ws, n)
           /\ fg' = IF fg.edit = e.edit
                    THEN [fg EXCEPT !.remote = IF accepted /\ call # "none" THEN "ok" ELSE "failed"]
                    ELSE fg
           /\ syncQueue' = SubSeq(syncQueue, 1, k - 1) \o SubSeq(syncQueue, k + 1, Len(syncQueue))
  /\ UNCHANGED <<mainPc, now, cacheTasks, cacheLastSync, mu, lastAccess, cacheFile, tempFile,
                 bg, imp, caller, imports, ticks, currentModel, updateChan, refreshChan, mTasks,
                 mCompletedTasks, exportQueue, tbVars, uiPc, startTasks, pTasks,
                 pCompletedTasks, cursor, currentPath, currentListID, edits, tasksFile, st,
                 pubs>>

\* The program in Google mode with its key presses.
UINext ==
  \/ InitializeGoogleTasks
  \/ MainLoadTasks
  \/ RunTaskUI
  \/ UpdateDown
  \/ UpdateUp
  \/ UpdateRight
  \/ UpdateLeft
  \/ UpdateRename
  \/ UpdateNotes
  \/ UpdateDueDate
  \/ UpdateToggle
  \/ UpdateDelete
  \/ UpdateNewTask
  \/ syncToGoogleRun

\* The run starts with the cache file of an earlier run. The poll is left out:
\* it writes the cache and the m of NewModel, which no key handler reads, and
\* reads the remote service only.
UIInit == Init /\ cacheFile = JsonFile(MarshalTasks(EarlierSnapshot))

SpecUI == UIInit /\ [][UINext]_vars

\* C17: no v1.Task payload of CreateTask, of UpdateTask or of the export pass
\* carries a Due that is the formatting of the zero time: the Due of a task
\* without a due date is left out.
C17_ZeroDueOmitted == \A w \in wireLog : w.due # FormatRFC3339(0)

\* Every task of the tree, at every depth, has Completed exactly when its
\* Status is "completed".
RECURSIVE CompletedFollowsStatus(_)
CompletedFollowsStatus(tasks) ==
  \A i \in 1..Len(tasks.elems) :
    /\ tasks.elems[i].Completed <=> (tasks.elems[i].Status = "completed")
    /\ CompletedFollowsStatus(tasks.elems[i].Tasks)

\* The candidates a fetch returns in this state, whichever Tasks.List calls fail.
Candidates ==
  {fetchGoogleTasks(remote, TRUE, failed, now).tasks :
     failed \in SUBSET {remote[i].Id : i \in 1..Len(remote)}}

\* C18: in every task of every candidate a fetch returns, of the cache and of the
\* UI model's trees, Completed is true exactly when Status is "completed",
\* whatever fetches, creations, renames, toggles and other key presses came before.
C18_CompletedFollowsStatus ==
  /\ \A c \in Candidates : CompletedFollowsStatus(c)
  /\ CompletedFollowsStatus(startTasks.val)
  /\ CompletedFollowsStatus(cacheTasks.val)
  /\ CompletedFollowsStatus(pTasks)
  /\ CompletedFollowsStatus(pCompletedTasks)
  /\ CompletedFollowsStatus(MakeSlice(currentPath))
  /\ CompletedFollowsStatus(mTasks.val)
  /\ CompletedFollowsStatus(mCompletedTasks.val)

\* Task A of the first list was toggled inside its list after another mutation:
\* it is completed in the UI tree, the remote call went through, and a fetch
\* now returns it completed, next to the completed subtask the cache holds.
C18_Witness ==
  /\ fg.kind = "toggle" /\ fg.remote = "ok" /\ edits = MaxEdits
  /\ Len(currentPath) = 1 /\ currentPath[1].Id = "L1"
  /\ \E i \in 1..GoLen(pTasks) :
       /\ pTasks.elems[i].Id = "L1"
       /\ \E k \in 1..GoLen(pTasks.elems[i].Tasks) :
            /\ pTasks.elems[i].Tasks.elems[k].Id = "A"
            /\ pTasks.elems[i].Tasks.elems[k].Completed
            /\ pTasks.elems[i].Tasks.elems[k].Status = "completed"
  /\ \E c \in Candidates :
       /\ GoLen(c) > 0
       /\ \E k \in 1..GoLen(c.elems[1].Tasks) :
            /\ c.elems[1].Tasks.elems[k].Id = "A"
            /\ c.elems[1].Tasks.elems[k].Completed
  /\ GoLen(cacheTasks.val) > 0

\* No task of the tree, at any depth, has the status "deleted".
RECURSIVE NoDeleted(_)
NoDeleted(tasks) ==
  \A i \in 1..Len(tasks.elems) :
    /\ tasks.elems[i].Status # "deleted"
    /\ NoDeleted(tasks.elems[i].Tasks)

\* C19: no task with status "deleted" is in the UI model's trees or in its path,
\* in the snapshot given to SaveTasks, or in tasks.json: the marker is only on the
\* value given to syncToGoogle.
C19_DeletedNeverStored ==
  /\ NoDeleted(pTasks)
  /\ NoDeleted(pCompletedTasks)
  /\ NoDeleted(MakeSlice(currentPath))
  /\ NoDeleted(fg.saved)
  /\ tasksFile.state = "json" => NoDeleted(UnmarshalTasks(tasksFile.data))

\* Task A was deleted inside the first list: the goroutine of syncToGoogle holds
\* it with the marker, the list is empty in the path and in the tree, and the
\* tree was saved.
C19_Witness ==
  /\ fg.kind = "delete"
  /\ \E k \in 1..Len(syncQueue) :
       /\ syncQueue[k].edit = fg.edit
       /\ syncQueue[k].task.Status = "deleted"
       /\ syncQueue[k].task.Id = "A"
  /\ Len(currentPath) = 1 /\ currentPath[1].Id = "L1" /\ GoLen(currentPath[1].Tasks) = 0
  /\ \E i \in 1..GoLen(pTasks) : pTasks.elems[i].Id = "L1" /\ GoLen(pTasks.elems[i].Tasks) = 0
  /\ fg.saved = pTasks
  /\ tasksFile = JsonFile(MarshalTasks(pTasks))

\* The key handlers that change an existing task.
MutationKinds == {"rename", "notes", "due_date", "toggle", "delete"}

\* C20: while the remote call of the latest mutation of an existing task has not
\* succeeded (it is still to be made, or it failed), the UI trees and tasks.json
\* hold what they held before the key was handled.
C20_LocalAfterRemote ==
  (fg.kind \in MutationKinds /\ fg.remote \in {"pending", "failed"}) =>
    /\ pTasks = fg.tasks
    /\ pCompletedTasks = fg.completedTasks
    /\ tasksFile = fg.file

\* ------------------------------------------------------------ creation
\* The id and position of every task of a tree, at every depth.
RECURSIVE Nodes(_)
Nodes(tasks) ==
  UNION {{[Id |-> tasks.elems[i].Id, Position |-> tasks.elems[i].Position]}
           \cup Nodes(tasks.elems[i].Tasks) : i \in 1..Len(tasks.elems)}

\* The id and position of every task the remote service holds.
RemoteNodes(rem) ==
  UNION {{[Id |-> rem[i].Items[k].Id, Position |-> rem[i].Items[k].Position] :
            k \in 1..Len(rem[i].Items)} : i \in 1..Len(rem)}

\* The step is the handling of n, a title, enter.
NewTaskStep == edits' = edits + 1 /\ (fg'.edit # edits' \/ fg'.kind = "new_task")

\* C21: the handling of a new task either adds to the tree exactly one task,
\* which the remote service has just created and which carries the id and the
\* position the service gave it, or (the remote create failed or was not made)
\* leaves the trees, the path, the cursor, tasks.json and the remote service as
\* they were.
C21_CreateAfterRemote ==
  [][NewTaskStep =>
       IF fg'.edit = edits'
       THEN /\ Nodes(pTasks) \subseteq Nodes(pTasks')
            /\ \E n \in RemoteNodes(remote') \ RemoteNodes(remote) :
                 /\ n.Id # ""
                 /\ Nodes(pTasks') \ Nodes(pTasks) = {n}
            /\ pCompletedTasks' = pCompletedTasks
            /\ fg'.saved = pTasks'
       ELSE /\ UNCHANGED <<pTasks, pCompletedTasks, currentPath, cursor, tasksFile, remote>>
            /\ syncQueue' = syncQueue]_vars

\* A first create failed and left no trace; a second one, made inside the first
\* list, succeeded: the task is in the list with the id and position of the
\* service, under the cursor, and the tree was saved.
C21_Witness ==
  /\ edits = 2 /\ fg.edit = 2 /\ fg.kind = "new_task"
  /\ fg.tasks = splitTasks(startTasks.val)[1] /\ fg.file = AbsentFile
  /\ syncQueue = <<>>
  /\ [Id |-> "N2", Position |-> <<0, 2>>] \in RemoteNodes(remote)
  /\ \A n \in RemoteNodes(remote) : n.Id # "N1"
  /\ Len(currentPath) = 1 /\ currentPath[1].Id = "L1"
  /\ cursor = GoLen(currentPath[1].Tasks) - 1
  /\ ElemAt(currentPath[1].Tasks, cursor).Id = "N2"
  /\ ElemAt(currentPath[1].Tasks, cursor).Position = <<0, 2>>
  /\ [Id |-> "N2", Position |-> <<0, 2>>] \in Nodes(pTasks)
  /\ tasksFile = JsonFile(MarshalTasks(pTasks))

\* ------------------------------------------------------------ lock and network
\* C22: the caller of ImportTasks holds taskCache.mu, shared or exclusive, at no
\* moment at which its call of fetchGoogleTasks is in progress.
C22_NoLockDuringNetworkCall == caller.pc = "netcall" => HeldBy("caller") = "none"

\* ------------------------------------------------------------ convergence
\* The ticker fires and its goroutine is scheduled whenever it can run.
FairSpecPoll ==
  /\ SpecPoll
  /\ WF_vars(BgTick) /\ WF_vars(BgFetch) /\ WF_vars(BgLock) /\ WF_vars(BgReconcile)
  /\ WF_vars(BgUnlock)

\* The remote content in which the first task has the given title.
RemoteWith(title) == <<RemoteList1(title), RemoteList2>>

\* The forest built from that content.
ForestOf(title) == fetchGoogleTasks(RemoteWith(title), TRUE, {}, 0).tasks

\* C23: when a poll starts and from then on the remote content stays the same
\* and no call of the fetch fails, the cache comes to hold, and keeps, the lists
\* and tasks of the forest built from that content.
C23_Convergence ==
  \A title \in {"t1", "t2"} :
    []((/\ bg.pc = "fetching"
        /\ [](remote = RemoteWith(title) /\ ~bg.err /\ bg.failed = {}))
         => <>[]SameEntities(cacheTasks.val, ForestOf(title)))

\* The remote content was changed after the cache file was written, and the
\* poll has brought the cache to the forest of the new content.
C23_Witness ==
  /\ ticks = 1 /\ bg.pc = "idle" /\ ~bg.err
  /\ cacheFile # AbsentFile
  /\ remote = RemoteWith("t2")
  /\ SameEntities(cacheTasks.val, ForestOf("t2"))
  /\ ~SameEntities(EarlierSnapshot, ForestOf("t2"))

\* ------------------------------------------------------------ tasksEqual
\* The tasks a slice contains, in order and with their subtasks: what is left of
\* it when a nil slice and an empty one are not told apart.
RECURSIVE Content(_)
Content(s) == [i \in 1..Len(s.elems) |-> [s.elems[i] EXCEPT !.Tasks = Content(@)]]

\* C24: whenever the reconciliation compares the candidate with the cached
\* snapshot, tasksEqual is true exactly when both contain the same tasks, in the
\* same hierarchy and order, with the same value in every field.
C24_TasksEqualIsStructural ==
  bg.pc = "locked" =>
    (tasksEqual(cacheTasks.val, bg.tasks.val) <=> Content(cacheTasks.val) = Content(bg.tasks.val))

\* ------------------------------------------------------------ failed cache save
\* The ticker's reconciliation replaces the cache in this step and
\* saveCachedTasks returns an error.
SaveFailedStep == BgReconcileStep /\ bg'.changed /\ bg'.saveErr

RecursionRootsAll(tasks) == 1..Len(tasks)

\* buildTaskHierarchy lines 686-690: findChildren is started from the tasks with
\* an empty Parent.
RecursionRoots(tasks) == {i \in 1..Len(tasks) : tasks[i].Parent = ""}

\* The depth of the nested calls findChildren(parentID, ...) makes (lines
\* 697-703: one call per task whose Parent is parentID), counted up to fuel.
RECURSIVE CallDepth(_, _, _)
CallDepth(parentID, allTasks, fuel) ==
  IF fuel = 0 THEN 0
  ELSE LET below == {CallDepth(allTasks[i].Id, allTasks, fuel - 1) :
                       i \in {j \in 1..Len(allTasks) : allTasks[j].Parent = parentID}}
       IN  1 + (IF below = {} THEN 0 ELSE CHOOSE d \in below : \A e \in below : e <= d)

\* C27: on every input with unique ids, cyclic and self-referring parent
\* references included, buildTaskHierarchy returns, and the calls of
\* findChildren are nested no deeper than the number of tasks.
C27_TreeBuilderTerminates ==
  tbPc = "built" =>
    \A i \in RecursionRoots(tbTasks) :
      CallDepth(tbTasks[i].Id, tbTasks, Len(tbTasks) + 1) <= Len(tbTasks)

\* A and B name each other as parent, C is a root: the forest was built and
\* holds C alone.
C27_Witness ==
  /\ tbPc = "built"
  /\ Len(tbTasks) = 3
  /\ tbTasks[1].Parent = "B" /\ tbTasks[2].Parent = "A" /\ tbTasks[3].Parent = ""
  /\ Len(tbResult.elems) = 1
  /\ tbResult.elems[1].Id = "C"
  /\ GoLen(tbResult.elems[1].Tasks) = 0

\* ------------------------------------------------------------ delete
\* The tasks of the current view in the order they are shown.
View(m) == getCurrentTasks(m)[1].elems \o getCurrentTasks(m)[2].elems

\* A sequence of tasks without the tasks of the given id.
WithoutId(seq, id) == SelectSeq(seq, LAMBDA t : t.Id # id)

C29_NoIndexOutOfBounds == mainPc # "panicked"

LockNext ==
  \/ InitializeGoogleTasks
  \/ SetCurrentModel
  \/ BgTick
  \/ BgFetch
  \/ BgLock
  \/ BgReconcile
  \/ BgUnlock
  \/ ImportTasks
  \/ CallerRLock
  \/ CallerReturnCached
  \/ CallerFetchStart
  \/ CallerFetchDone
  \/ ImpFetch
  \/ ImpLock
  \/ ImpReconcile
  \/ ImpUnlock
  \/ handleUpdates
  \/ waitForRefresh

\* The program is started with no cache file, so that a caller of ImportTasks
\* can find the cache empty as well as filled by a fetch.
LockInit == Init /\ cacheFile = AbsentFile

SpecLock == LockInit /\ [][LockNext]_vars

\* The steps of the ticker goroutine after a tick (main.go 277-293), of the
\* goroutine of ImportTasks (372-388) and of its caller (392-404).
BgSteps == BgFetch \/ BgLock \/ BgReconcile \/ BgUnlock

ImpSteps == ImpFetch \/ ImpLock \/ ImpReconcile \/ ImpUnlock

CallerSteps == CallerRLock \/ CallerReturnCached \/ CallerFetchStart \/ CallerFetchDone

\* Every thread that can take a step is scheduled and every call to the remote
\* service returns; sync.RWMutex does not starve a thread that waits for it, so
\* a thread whose next step is enabled again and again takes it. handleUpdates
\* and the program's refresh command run whenever their channel has an element.
FairSpecLock ==
  /\ SpecLock
  /\ SF_vars(BgSteps) /\ SF_vars(ImpSteps) /\ SF_vars(CallerSteps)
  /\ WF_vars(handleUpdates) /\ WF_vars(waitForRefresh)

\* C26: no operation blocks forever. Again and again the cache lock is free (no
\* hold lasts forever), no thread is left waiting for it (a thread leaves its
\* waiting position only by getting the lock), the update channel has been
\* emptied by handleUpdates and the refresh channel by the program.
C26_NoBlockingForever ==
  /\ []<>LockFree
  /\ []<>(bg.pc # "fetched")
  /\ []<>(imp.pc # "fetched")
  /\ []<>(caller.pc # "spawned")
  /\ []<>(updateChan = <<>>)
  /\ []<>(refreshChan = 0)

\* The ticker and the caller of ImportTasks both wait for the lock that the
\* goroutine of ImportTasks holds, with an update waiting on the channel.
C26_Witness ==
  /\ bg.pc = "fetched" /\ caller.pc = "spawned" /\ mu.writer = "imp"
  /\ updateChan # <<>>

\* ------------------------------------------------------------ edits under the cursor
\* A completed task at the top of a list, as the service returns it.
RemoteTaskE(position) ==
  [WireTask("E", "e", "completed", "", position) EXCEPT !.hasCompleted = TRUE,
                                                       !.Completed = FormatRFC3339(1)]

RemoteTaskF == WireTask("F", "f", "needsAction", "", Pos1)

RemoteList3(items) ==
  [Id |-> "L3", Title |-> "list3", Kind |-> "tasks#taskList", Items |-> items]

\* One list with an active and a completed task; the position the service keeps
\* puts the active one first or the completed one first.
MixedRemotes ==
  {<<RemoteList3(<<RemoteTaskD, RemoteTaskE(Pos1)>>)>>,
   <<RemoteList3(<<RemoteTaskE(Pos0), RemoteTaskF>>)>>}

\* The program is started against such a service, with no cache file.
EditInit ==
  /\ mainPc = "start"
  /\ remote \in MixedRemotes
  /\ now = 1
  /\ cacheTasks = NoRef
  /\ cacheLastSync = 0
  /\ mu = Unlocked
  /\ lastAccess = [who |-> "none", kind |-> "none", held |-> "none"]
  /\ cacheFile = AbsentFile
  /\ tempFile = AbsentFile
  /\ bg = Goroutine("off")
  /\ imp = Goroutine("off")
  /\ caller = [pc |-> "idle", ret |-> NoRef, err |-> FALSE]
  /\ imports = 0
  /\ ticks = 0
  /\ currentModel = FALSE
  /\ updateChan = <<>>
  /\ refreshChan = 0
  /\ mTasks = NoRef
  /\ mCompletedTasks = NoRef
  /\ exportQueue = <<>>
  /\ tbTasks = <<>>
  /\ tbResult = NilSlice
  /\ tbPc = "off"
  /\ FgOff

\* The keys that move the cursor and the edits of a text field.
EditNext ==
  \/ InitializeGoogleTasks
  \/ MainLoadTasks
  \/ RunTaskUI
  \/ UpdateDown
  \/ UpdateUp
  \/ UpdateRight
  \/ UpdateLeft
  \/ UpdateRename
  \/ UpdateNotes
  \/ syncToGoogleRun

SpecEdit == EditInit /\ [][EditNext]_vars

\* A rename or an edit of the notes has been handled.
TextEditStep == edits' = edits + 1 /\ fg'.kind \in {"rename", "notes"}

\* C31: a rename or an edit of the notes changes the task shown under the cursor
\* (the view is the active tasks followed by the completed ones), gives it the
\* text of the input line, and changes no other row of the view.
C31_EditChangesShownTask ==
  [][TextEditStep =>
       /\ Len(View(TheModel)') = Len(View(TheModel))
       /\ \A i \in 1..Len(View(TheModel)) :
            IF i = cursor + 1
            THEN /\ View(TheModel)'[i].Id = View(TheModel)[i].Id
                 /\ fg'.kind = "rename" => View(TheModel)'[i].Title = "t2"
                 /\ fg'.kind = "notes" => View(TheModel)'[i].Notes = "n1"
            ELSE View(TheModel)'[i] = View(TheModel)[i]]_vars

\* ------------------------------------------------------------ what a save holds
\* C32: the snapshot given to SaveTasks by a foreground mutation holds every
\* task of the UI model, active or completed, at every depth.
C32_SaveHoldsEveryTask ==
  (UiRunning /\ fg.kind # "none" /\ fg.saved # NilSlice) =>
    Nodes(pTasks) \cup Nodes(pCompletedTasks) \subseteq Nodes(fg.saved)

\* ------------------------------------------------------------ the list a request names
\* The service holds a task of this id in one of its lists.
HeldByRemote(rem, id) ==
  \E i \in 1..Len(rem) : \E k \in 1..Len(rem[i].Items) : rem[i].Items[k].Id = id

\* C33: the update or delete request that syncToGoogle is about to send for a
\* task the service holds names the list that holds the task, so the service
\* finds the task in it, whichever list that is.
C33_RequestNamesListOfTask ==
  \A k \in 1..Len(syncQueue) :
    LET task == syncQueue[k].task
    IN  (task.Id # "" /\ HeldByRemote(remote, task.Id)) =>
          CASE task.Status \in {"needsAction", "completed"} ->
                 WriteAccepted(remote, UpdateTaskWrite(task))
            [] task.Status = "deleted" -> DeleteAccepted(remote, task.Id)
            [] OTHER -> TRUE

\* ------------------------------------------------------------ what a cycle sends
\* C34: a reconciliation cycle and the delivery of its notification send no
\* create, update or delete request to the remote service: with the ticker as
\* the only activity, no task payload has been sent to it.
C34_CycleOnlyReads == wireLog = {}

\* ------------------------------------------------------------ order of snapshots
\* C35: when a fetched snapshot replaces a fetched snapshot in the cache, the
\* new one was fetched after the one it replaces.
C35_CacheNeverRegresses ==
  [][(cacheTasks'.top # cacheTasks.top /\ cacheTasks.top[1] = "fetch"
        /\ cacheTasks'.top[1] = "fetch")
       => cacheTasks'.top[2] > cacheTasks.top[2]]_vars

\* ------------------------------------------------------------ writes after a delete
\* Whether the export pass ws, run against the service rem, gets as far as an
\* UpdateTask for the task id: it stops at the first write that is refused.
RECURSIVE ExportReaches(_, _, _)
ExportReaches(rem, ws, id) ==
  IF ws = <<>> THEN FALSE
  ELSE IF Head(ws).op = "updateTask" /\ Head(ws).id = id THEN TRUE
  ELSE IF ~WriteAccepted(rem, Head(ws)) THEN FALSE
  ELSE ExportReaches(ApplyWrite(rem, Head(ws)), Tail(ws), id)

\* C36: the goroutine that syncToGoogle starts for a delete of a task the
\* service holds sends, after its DeleteTask, no UpdateTask for that task: the
\* export pass that follows works on a tree without it.
C36_NoWriteAfterDelete ==
  \A k \in 1..Len(syncQueue) :
    LET e == syncQueue[k]
    IN  (e.task.Status = "deleted" /\ DeleteAccepted(remote, e.task.Id)) =>
          ~ExportReaches(ApplyDelete(remote, e.task.Id), ExportWrites(e.tasks), e.task.Id)

\* ------------------------------------------------------------ a cycle with a failed list
\* C37: after the reconciliation of a cycle the cache holds exactly the lists
\* whose Tasks.List call succeeded in that cycle, in the order Tasklists.List
\* gave them: a list whose call failed is not in it, neither as it was in the
\* cache before nor as a container without tasks.
C37_FailedListLeavesCache ==
  [][BgReconcileStep =>
       ListIdsOf(cacheTasks'.val.elems)
         = SelectSeq(bg.listed, LAMBDA id : id \notin bg.failed)]_vars

\* The cache was loaded from a file that holds L1 and L2; Tasks.List failed for
\* L1 in the cycle, and the cache now holds L2 alone (the save failed, so the
\* file still shows what the cache held before).
C37_Witness ==
  /\ bg.pc = "reconciled" /\ bg.changed /\ bg.saveErr
  /\ bg.failed = {"L1"}
  /\ ListIdsOf(cacheTasks.val.elems) = <<"L2">>
  /\ cacheFile = JsonFile(MarshalTasks(EarlierSnapshot))

====
